---- MODULE Spec2Model ----
(***************************************************************************)
(* A model of the tinylog logging pipeline (header version 1.4.0):         *)
(* the registry of named loggers, loggers and their sink adapters, the     *)
(* sinks (console sink and rotating file sink) and the capture front-end   *)
(* of the dlout / dlprintf macro family.                                   *)
(*                                                                         *)
(* Every action is one call of the library, run to completion by one       *)
(* thread.  A record is [id, lvl, m]: its sequence number, its level and   *)
(* the size of its formatted text.  A file on disk is [exists, data],      *)
(* data being the sequence of records it holds.                            *)
(***************************************************************************)
EXTENDS Integers, Sequences, FiniteSets, TLC

(***************************************************************************)
(* enum level : std::uint8_t { trace, debug, info, warn, error, fatal }    *)
(***************************************************************************)
trace == 0
debug == 1
info  == 2
warn  == 3
error == 4
fatal == 5
Levels == trace..fatal

(***************************************************************************)
(* Bounds of the model.                                                    *)
(***************************************************************************)
MaxLoggers == 3      \* logger objects ever constructed
MaxSinks == 2        \* sink objects ever constructed
MaxAdapters == 2     \* adapters attached to one logger
MaxOps == 5          \* calls made in one behaviour of the pipeline
MaxRegOps == 5       \* calls made in one behaviour of the registry
MaxFileOps == 6      \* calls made in one behaviour of the file sink
MaxMsg == 3          \* largest formatted record size
MaxFileSize == 4     \* largest max_file_size given to a file sink
MaxOldSize == 2      \* largest size of a log file found at construction
MaxThreads == 2      \* threads that call into the library

Names == {"a", "b"}
LoggerIds == 1..MaxLoggers
SinkIds == 1..MaxSinks
Threads == 1..MaxThreads
Null == 0
MsgSizes == 1..MaxMsg

VARIABLES
    lvl_,       \* registry_impl::lvl_
    loggers_,   \* registry_impl::loggers_ : name -> logger (Null: no entry)
    logger,     \* the logger objects: [alive, name, lvl_, sink_adapters_]
    sink,       \* the sink objects: [kind, lvl_, strm, max_file_size_]
    live,       \* per file sink, the file at filename_
    bak,        \* per file sink, the file at filename_ + ".bak"
    console,    \* the records printed on the standard stream, in order
    nrec,       \* records constructed so far (the next record's id - 1)
    erased,     \* the loggers an erase call has removed from the registry
    left,       \* calls the behaviour may still make
    ret,        \* what the last call returned / did
    thread,     \* per thread: where it is in its call, and its thread_local id
    mtx_,       \* basic_sink::mtx_ : the thread holding it (Null: free)
    reg_mtx_,   \* registry_impl::mtx_ : the thread holding it (Null: free)
    id,         \* curr_thrd_id's static std::atomic_size_t id
    safe,       \* the build defines TINYLOG_REGISTRY_THREAD_SAFE
    acq,        \* per sink, the records in the order their threads took mtx_
    out         \* per sink, the pieces the threads' writes put on its stream

\* the state the threads add
tvars == <<thread, mtx_, reg_mtx_, id, safe, acq, out>>

vars == <<lvl_, loggers_, logger, sink, live, bak, console, nrec, erased, left,
          ret, thread, mtx_, reg_mtx_, id, safe, acq, out>>

NoFile == [exists |-> FALSE, data |-> <<>>]
NoLogger == [alive |-> FALSE, name |-> "", lvl_ |-> trace, sink_adapters_ |-> <<>>]
NoSink == [kind |-> "none", lvl_ |-> trace, strm |-> "none", max_file_size_ |-> 0]

RECURSIVE SumSizes(_)
SumSizes(data) ==
    IF data = <<>> THEN 0 ELSE Head(data).m + SumSizes(Tail(data))

FileSize(f) == SumSizes(f.data)

(***************************************************************************)
(* Unsigned 64-bit size arithmetic of basic_file_sink::before_writing.     *)
(* Npos stands for the largest std::uintmax_t, which tellp() = -1 converts *)
(* to; every other size of the model is far below it.                      *)
(***************************************************************************)
Npos == -1

\* ostrm_.tellp(): the end of the file while the stream is good (the sink
\* opens in append mode and seeks to the end before every write), -1 on a
\* failed stream.
Tellp(sk, f) == IF sk.strm = "open" THEN FileSize(f) ELSE Npos

\* curr_file_size + msg.size() modulo 2^64
USum(curr, m) ==
    IF curr = Npos THEN (IF m = 0 THEN Npos ELSE m - 1) ELSE curr + m

\* a < b on std::uintmax_t
ULess(a, b) == IF a = Npos THEN FALSE ELSE (b = Npos \/ a < b)

(***************************************************************************)
(* detail::file_rename(old, now): rename(2) replaces `now` by `old` when   *)
(* `old` exists and the file system allows it (ok), and changes nothing    *)
(* otherwise.  The POSIX branch throws when rename() returned 0.           *)
(***************************************************************************)
\* a file_rename that does not replace an existing target
FileRenameKeep(old, now, ok) ==
    IF ok /\ old.exists /\ ~now.exists
    THEN [old |-> NoFile, now |-> old, threw |-> TRUE]
    ELSE [old |-> old, now |-> now, threw |-> FALSE]

FileRename(old, now, ok) ==
    IF ok /\ old.exists
    THEN [old |-> NoFile, now |-> old, threw |-> TRUE]
    ELSE [old |-> old, now |-> now, threw |-> FALSE]

(***************************************************************************)
(* The sinks.  W is the part of the state a sink can change:               *)
(* [sink, live, bak, console].  env[s] tells whether the file system lets  *)
(* sink s rename its file and reopen it during this call.                  *)
(***************************************************************************)
\* basic_console_sink::is_open / basic_file_sink::is_open
SinkIsOpen(sk) ==
    IF sk.kind \in {"console", "wconsole"} THEN TRUE ELSE sk.strm = "open"

\* a before_writing that rotates only once the cap is exceeded
BeforeWritingLate(W, s, m, e) ==
    LET sk == W.sink[s]
        curr_file_size == Tellp(sk, W.live[s])
    IN  IF ~ULess(sk.max_file_size_, USum(curr_file_size, m))
        THEN W
        ELSE LET rn == FileRename(W.live[s], W.bak[s], e.renameOk)
             IN  IF e.openOk
                 THEN [W EXCEPT !.sink[s].strm = "open",
                                !.live[s] = [exists |-> TRUE, data |-> <<>>],
                                !.bak[s] = rn.now]
                 ELSE [W EXCEPT !.sink[s].strm = "failed",
                                !.live[s] = rn.old,
                                !.bak[s] = rn.now]

\* a before_writing that never rotates
BeforeWritingNever(W, s, m, e) == W

\* basic_file_sink::before_writing
BeforeWriting(W, s, m, e) ==
    LET sk == W.sink[s]
        curr_file_size == Tellp(sk, W.live[s])
    IN  IF ULess(USum(curr_file_size, m), sk.max_file_size_)
        THEN W
        ELSE LET rn == FileRename(W.live[s], W.bak[s], e.renameOk)
             IN  IF e.openOk
                 THEN [W EXCEPT !.sink[s].strm = "open",
                                !.live[s] = [exists |-> TRUE, data |-> <<>>],
                                !.bak[s] = rn.now]
                 ELSE [W EXCEPT !.sink[s].strm = "failed",
                                !.live[s] = rn.old,
                                !.bak[s] = rn.now]

\* basic_file_sink::writing
FileWriting(W, s, rec) ==
    IF ~SinkIsOpen(W.sink[s])
    THEN W
    ELSE [W EXCEPT !.live[s] = [exists |-> TRUE,
                                data |-> Append(W.live[s].data, rec)]]

\* basic_console_sink::writing
ConsoleWriting(W, s, rec) ==
    [W EXCEPT !.console = Append(W.console, [sink |-> s, rec |-> rec])]

\* a sink that forgets its own floor
SinkAcceptsNoFloor(sk, lvl) == TRUE

\* basic_sink::write: the sink's own floor
SinkAccepts(sk, lvl) == ~(sk.lvl_ > lvl)

\* whether the destination takes the bytes of this call's write; an
\* environment that says nothing about writes lets them succeed
WriteOk(e) == IF "writeOk" \in DOMAIN e THEN e.writeOk ELSE TRUE

\* basic_sink::consume -> basic_sink::write: the floor check, then the hooks
\* before_writing, writing of the sink's class.  The result is the new W and
\* whether the sink's floor let the record pass.  A failed write or flush
\* of the file sink leaves its stream with badbit set (not open any more);
\* the console sink ignores what printf returns.
SinkConsume(W, s, rec, e) ==
    LET sk == W.sink[s]
    IN  IF ~SinkAccepts(sk, rec.lvl)
        THEN [W |-> W, accepted |-> FALSE]
        ELSE IF sk.kind \in {"console", "wconsole"}
        THEN [W |-> IF WriteOk(e) THEN ConsoleWriting(W, s, rec) ELSE W,
              accepted |-> TRUE]
        ELSE LET B == BeforeWriting(W, s, rec.m, e)
             IN  [W |-> IF WriteOk(e) \/ ~SinkIsOpen(B.sink[s])
                        THEN FileWriting(B, s, rec)
                        ELSE [B EXCEPT !.sink[s].strm = "failed"],
                  accepted |-> TRUE]

(***************************************************************************)
(* The sink adapter and the logger.                                        *)
(***************************************************************************)
\* an adapter that reports open whenever it has a sink
AdapterIsOpenAlways(W, s) == s # Null

\* basic_sink_adapter::is_open (the adapter's sink_ is never null: add_sink
\* asserts it)
AdapterIsOpen(W, s) == s # Null /\ SinkIsOpen(W.sink[s])

\* basic_sink_adapter::consume: a record of the sink's character type is
\* handed on as it is; for a sink of the other character type (kind
\* "wconsole") the message is converted first, and the conversion throws
\* when the environment has no usable locale (e[s].cvtOk is false).
\* Nothing on the way catches it.
AdapterConsume(W, s, rec, e) ==
    IF W.sink[s].kind = "wconsole" /\ ~e.cvtOk
    THEN [W |-> W, accepted |-> FALSE, threw |-> TRUE]
    ELSE LET c == SinkConsume(W, s, rec, e)
         IN  [W |-> c.W, accepted |-> c.accepted, threw |-> FALSE]

\* a logger floor that rejects the record whose level equals it
LoggerConsumeStrict(lg, lvl) == lvl > lg.lvl_

\* logger::consume
LoggerConsume(lg, lvl) == lvl >= lg.lvl_

\* logger::push_record: the loop over sink_adapters_, from adapter i on.
\* The result is the new W, the calls that returned, in order: one entry
\* [adapter, sink, rec, accepted] per consume() call, and whether a call
\* threw (which ends the loop: push_record has no handler).
RECURSIVE PushLoop(_, _, _, _, _, _)
PushLoop(W, adapters, i, rec, env, calls) ==
    IF i > Len(adapters)
    THEN [W |-> W, calls |-> calls, threw |-> FALSE]
    ELSE LET s == adapters[i]
         IN  IF ~AdapterIsOpen(W, s)
             THEN PushLoop(W, adapters, i + 1, rec, env, calls)
             ELSE LET c == AdapterConsume(W, s, rec, env[s])
                  IN  IF c.threw
                      THEN [W |-> c.W, calls |-> calls, threw |-> TRUE]
                      ELSE PushLoop(c.W, adapters, i + 1, rec, env,
                                    Append(calls, [adapter |-> i, sink |-> s,
                                                   rec |-> rec,
                                                   accepted |-> c.accepted]))

\* a push_record that gives up at the first adapter that is not open
RECURSIVE PushLoopBreak(_, _, _, _, _, _)
PushLoopBreak(W, adapters, i, rec, env, calls) ==
    IF i > Len(adapters) \/ ~AdapterIsOpen(W, adapters[i])
    THEN [W |-> W, calls |-> calls, threw |-> FALSE]
    ELSE LET c == AdapterConsume(W, adapters[i], rec, env[adapters[i]])
         IN  IF c.threw
             THEN [W |-> c.W, calls |-> calls, threw |-> TRUE]
             ELSE PushLoopBreak(c.W, adapters, i + 1, rec, env,
                                Append(calls, [adapter |-> i,
                                               sink |-> adapters[i],
                                               rec |-> rec,
                                               accepted |-> c.accepted]))

PushRecordBreak(W, lg, rec, env) ==
    PushLoopBreak(W, lg.sink_adapters_, 1, rec, env, <<>>)

PushRecord(W, lg, rec, env) == PushLoop(W, lg.sink_adapters_, 1, rec, env, <<>>)

(***************************************************************************)
(* The registry (detail::registry_impl of the header).                     *)
(***************************************************************************)
\* a throw_if_exists that never finds the name
ThrowIfExistsNever(map, n) == FALSE

\* registry_impl::throw_if_exists: TRUE when it throws
ThrowIfExists(map, n) == map[n] # Null

\* registry_impl::get_logger(logger_name, filter_lvl)
RegistryGetLogger(map, reglvl, n, filter_lvl) ==
    IF map[n] # Null /\ reglvl <= filter_lvl THEN map[n] ELSE Null

\* the default argument of get_logger: filter_lvl = level::trace
DefaultFilter == trace

\* std::make_shared<logger_t>(logger_name): the next unused logger object
FreshLogger == CHOOSE l \in LoggerIds :
                   ~logger[l].alive /\ \A k \in LoggerIds : k < l => logger[k].alive
FreshSink == CHOOSE s \in SinkIds :
                 sink[s].kind = "none"
                 /\ \A k \in SinkIds : k < s => sink[k].kind # "none"

NoRec == [id |-> 0, lvl |-> trace, m |-> 0]
NoRet == [op |-> "none", name |-> "", arg |-> Null, lvl |-> trace,
          val |-> Null, threw |-> FALSE, rec |-> NoRec, found |-> FALSE,
          enabled |-> FALSE, calls |-> <<>>, env |-> <<>>]

\* a thread that has not called into the library: no call in progress, no
\* thread id assigned yet (thrd_id is initialised by the first record)
NoThread == [at |-> "idle", ln |-> "", rec |-> NoRec, logger_ |-> Null, i |-> 0,
             thrd_id |-> 0,
             res |-> [op |-> "none", name |-> "", val |-> Null,
                      threw |-> FALSE, raced |-> FALSE]]

InitWith(budget) ==
    /\ lvl_ = trace
    /\ loggers_ = [n \in Names |-> Null]
    /\ logger = [l \in LoggerIds |-> NoLogger]
    /\ sink = [s \in SinkIds |-> NoSink]
    /\ live = [s \in SinkIds |-> NoFile]
    /\ bak = [s \in SinkIds |-> NoFile]
    /\ console = <<>>
    /\ nrec = 0
    /\ erased = {}
    /\ left = budget
    /\ ret = NoRet
    /\ thread = [t \in Threads |-> NoThread]
    /\ mtx_ = [s \in SinkIds |-> Null]
    /\ reg_mtx_ = Null
    /\ id = 0
    /\ safe = TRUE
    /\ acq = [s \in SinkIds |-> <<>>]
    /\ out = [s \in SinkIds |-> <<>>]

\* one more call made by the main thread alone, while the behaviour may
\* still grow
Step == left > 0 /\ left' = left - 1 /\ UNCHANGED tvars

\* registry::set_level(lvl)
SetLevel(lvl) ==
    /\ Step
    /\ lvl_' = lvl
    /\ ret' = [NoRet EXCEPT !.op = "set_level"]
    /\ UNCHANGED <<loggers_, logger, sink, live, bak, console, nrec, erased>>

\* registry::create_logger(logger_name)
CreateLogger(n) ==
    /\ Step
    /\ \E l \in LoggerIds : ~logger[l].alive
    /\ IF ThrowIfExists(loggers_, n)
       THEN /\ ret' = [NoRet EXCEPT !.op = "create_logger", !.name = n,
                                    !.threw = TRUE]
            /\ UNCHANGED <<loggers_, logger>>
       ELSE /\ logger' = [logger EXCEPT ![FreshLogger] =
                              [alive |-> TRUE, name |-> n, lvl_ |-> trace,
                               sink_adapters_ |-> <<>>]]
            /\ loggers_' = [loggers_ EXCEPT ![n] = FreshLogger]
            /\ ret' = [NoRet EXCEPT !.op = "create_logger", !.name = n,
                                    !.val = FreshLogger]
    /\ UNCHANGED <<lvl_, sink, live, bak, console, nrec, erased>>

\* std::make_shared<logger>(n) by the caller: a logger not yet registered
NewLogger(n) ==
    /\ Step
    /\ \E l \in LoggerIds : ~logger[l].alive
    /\ logger' = [logger EXCEPT ![FreshLogger] =
                      [alive |-> TRUE, name |-> n, lvl_ |-> trace,
                       sink_adapters_ |-> <<>>]]
    /\ ret' = [NoRet EXCEPT !.op = "new_logger", !.name = n,
                            !.val = FreshLogger]
    /\ UNCHANGED <<lvl_, loggers_, sink, live, bak, console, nrec, erased>>

\* an add_logger that stores the logger before it checks the name
AddLoggerStoreFirst(inst) ==
    /\ Step
    /\ logger[inst].alive
    /\ loggers_' = [loggers_ EXCEPT ![logger[inst].name] = inst]
    /\ ret' = [NoRet EXCEPT !.op = "add_logger", !.name = logger[inst].name,
                            !.arg = inst,
                            !.threw = ThrowIfExists(loggers_, logger[inst].name),
                            !.val = IF ThrowIfExists(loggers_, logger[inst].name)
                                    THEN Null ELSE inst]
    /\ UNCHANGED <<lvl_, logger, sink, live, bak, console, nrec, erased>>

\* registry::add_logger(inst)
AddLogger(inst) ==
    /\ Step
    /\ logger[inst].alive
    /\ LET name == logger[inst].name
       IN  IF ThrowIfExists(loggers_, name)
           THEN /\ ret' = [NoRet EXCEPT !.op = "add_logger", !.name = name,
                                        !.arg = inst, !.threw = TRUE]
                /\ UNCHANGED loggers_
           ELSE /\ loggers_' = [loggers_ EXCEPT ![name] = inst]
                /\ ret' = [NoRet EXCEPT !.op = "add_logger", !.name = name,
                                        !.arg = inst, !.val = inst]
    /\ UNCHANGED <<lvl_, logger, sink, live, bak, console, nrec, erased>>

\* registry::get_logger(logger_name, filter_lvl)
GetLogger(n, filter_lvl) ==
    /\ Step
    /\ ret' = [NoRet EXCEPT !.op = "get_logger", !.name = n,
                            !.lvl = filter_lvl,
                            !.val = RegistryGetLogger(loggers_, lvl_, n,
                                                      filter_lvl)]
    /\ UNCHANGED <<lvl_, loggers_, logger, sink, live, bak, console, nrec, erased>>

\* registry::erase_logger(logger_name)
EraseLogger(n) ==
    /\ Step
    /\ loggers_' = [loggers_ EXCEPT ![n] = Null]
    /\ erased' = erased \cup ({loggers_[n]} \ {Null})
    /\ ret' = [NoRet EXCEPT !.op = "erase_logger", !.name = n]
    /\ UNCHANGED <<lvl_, logger, sink, live, bak, console, nrec>>

\* registry::erase_all_logger()
EraseAllLogger ==
    /\ Step
    /\ loggers_' = [n \in Names |-> Null]
    /\ erased' = erased \cup ({loggers_[n] : n \in Names} \ {Null})
    /\ ret' = [NoRet EXCEPT !.op = "erase_all_logger"]
    /\ UNCHANGED <<lvl_, logger, sink, live, bak, console, nrec>>

(***************************************************************************)
(* Calls on a logger and on a sink through the handles the caller holds.   *)
(***************************************************************************)
\* logger::set_level(lvl)
LoggerSetLevel(l, lvl) ==
    /\ Step
    /\ logger[l].alive
    /\ logger' = [logger EXCEPT ![l].lvl_ = lvl]
    /\ ret' = [NoRet EXCEPT !.op = "logger_set_level"]
    /\ UNCHANGED <<lvl_, loggers_, sink, live, bak, console, nrec, erased>>

\* an add_sink that returns the handle without attaching the sink
AddSinkDetached(l, s) ==
    /\ Step
    /\ logger[l].alive
    /\ sink[s].kind # "none"
    /\ Len(logger[l].sink_adapters_) < MaxAdapters
    /\ logger' = logger
    /\ ret' = [NoRet EXCEPT !.op = "add_sink", !.arg = l, !.val = s]
    /\ UNCHANGED <<lvl_, loggers_, sink, live, bak, console, nrec, erased>>

\* the add_sink of the older header, which begins with sk->set_level(lvl_)
AddSinkSetLevel(l, s) ==
    /\ Step
    /\ logger[l].alive
    /\ sink[s].kind # "none"
    /\ Len(logger[l].sink_adapters_) < MaxAdapters
    /\ sink' = [sink EXCEPT ![s].lvl_ = logger[l].lvl_]
    /\ logger' = [logger EXCEPT
                      ![l].sink_adapters_ = Append(logger[l].sink_adapters_, s)]
    /\ ret' = [NoRet EXCEPT !.op = "add_sink", !.arg = l, !.val = s]
    /\ UNCHANGED <<lvl_, loggers_, live, bak, console, nrec, erased>>

\* logger::add_sink(sk): one more adapter at the end of sink_adapters_
AddSink(l, s) ==
    /\ Step
    /\ logger[l].alive
    /\ sink[s].kind # "none"
    /\ Len(logger[l].sink_adapters_) < MaxAdapters
    /\ logger' = [logger EXCEPT
                      ![l].sink_adapters_ = Append(logger[l].sink_adapters_, s)]
    /\ ret' = [NoRet EXCEPT !.op = "add_sink", !.arg = l, !.val = s]
    /\ UNCHANGED <<lvl_, loggers_, sink, live, bak, console, nrec, erased>>

\* logger::create_sink<sink::console_sink>()
CreateConsoleSink(l) ==
    /\ Step
    /\ logger[l].alive
    /\ \E s \in SinkIds : sink[s].kind = "none"
    /\ Len(logger[l].sink_adapters_) < MaxAdapters
    /\ sink' = [sink EXCEPT ![FreshSink] =
                    [kind |-> "console", lvl_ |-> trace, strm |-> "none",
                     max_file_size_ |-> 0]]
    /\ logger' = [logger EXCEPT
                      ![l].sink_adapters_ =
                          Append(logger[l].sink_adapters_, FreshSink)]
    /\ ret' = [NoRet EXCEPT !.op = "create_sink", !.arg = l, !.val = FreshSink]
    /\ UNCHANGED <<lvl_, loggers_, live, bak, console, nrec, erased>>

\* The file found at a path when a file sink is constructed on it: none, or
\* one left by an earlier run (its content is record 0, of size old).
OldFile(old) ==
    IF old = 0 THEN NoFile
    ELSE [exists |-> TRUE, data |-> <<[id |-> 0, lvl |-> trace, m |-> old]>>]

\* logger::create_sink<sink::file_sink>(filename, max_file_size): the
\* constructor opens filename in append mode; openOk tells whether the file
\* system lets it.
CreateFileSink(l, max_file_size, old, oldbak, openOk) ==
    /\ Step
    /\ logger[l].alive
    /\ \E s \in SinkIds : sink[s].kind = "none"
    /\ Len(logger[l].sink_adapters_) < MaxAdapters
    /\ sink' = [sink EXCEPT ![FreshSink] =
                    [kind |-> "file", lvl_ |-> trace,
                     strm |-> IF openOk THEN "open" ELSE "failed",
                     max_file_size_ |-> max_file_size]]
    /\ live' = [live EXCEPT ![FreshSink] =
                    IF openOk THEN [exists |-> TRUE, data |-> OldFile(old).data]
                    ELSE OldFile(old)]
    /\ bak' = [bak EXCEPT ![FreshSink] = OldFile(oldbak)]
    /\ logger' = [logger EXCEPT
                      ![l].sink_adapters_ =
                          Append(logger[l].sink_adapters_, FreshSink)]
    /\ ret' = [NoRet EXCEPT !.op = "create_sink", !.arg = l, !.val = FreshSink]
    /\ UNCHANGED <<lvl_, loggers_, console, nrec, erased>>

\* basic_sink_base::set_level(lvl)
SinkSetLevel(s, lvl) ==
    /\ Step
    /\ sink[s].kind # "none"
    /\ sink' = [sink EXCEPT ![s].lvl_ = lvl]
    /\ ret' = [NoRet EXCEPT !.op = "sink_set_level"]
    /\ UNCHANGED <<lvl_, loggers_, logger, live, bak, console, nrec, erased>>

(***************************************************************************)
(* The capture front-end: one statement of the dlout / dlprintf family,    *)
(*   for (front-end _tl_strm_(ln, lvl); _tl_strm_; _tl_strm_.flush()) body *)
(* The constructor builds the record and looks the logger up with the      *)
(* record's level as filter; the loop runs while is_open(); flush() pushes *)
(* the record and drops the logger.                                        *)
(***************************************************************************)
EnvOutcomes == [renameOk : BOOLEAN, openOk : BOOLEAN]

LogStmt(ln, lvl, m, env) ==
    /\ Step
    /\ LET rec == [id |-> nrec + 1, lvl |-> lvl, m |-> m]
           logger_ == RegistryGetLogger(loggers_, lvl_, ln, lvl)
           is_open == logger_ # Null /\ LoggerConsume(logger[logger_], lvl)
           W == [sink |-> sink, live |-> live, bak |-> bak,
                 console |-> console]
           r == IF is_open THEN PushRecord(W, logger[logger_], rec, env)
                ELSE [W |-> W, calls |-> <<>>, threw |-> FALSE]
       IN  /\ sink' = r.W.sink
           /\ live' = r.W.live
           /\ bak' = r.W.bak
           /\ console' = r.W.console
           /\ nrec' = nrec + 1
           /\ ret' = [NoRet EXCEPT !.op = "log", !.name = ln, !.lvl = lvl,
                                   !.val = logger_, !.rec = rec,
                                   !.threw = r.threw,
                                   !.found = (logger_ # Null),
                                   !.enabled = is_open, !.calls = r.calls,
                                   !.env = env]
    /\ UNCHANGED <<lvl_, loggers_, logger, erased>>

(***************************************************************************)
(* Spec: the pipeline.  One logger name, loggers with console and file     *)
(* sinks, the three floors and logging statements.                         *)
(***************************************************************************)
PipeName == "a"
PipeFileSize == 2    \* max_file_size of the pipeline's file sinks
PipeMsg == 1         \* formatted size of the pipeline's records

Next ==
    \/ \E lvl \in Levels : SetLevel(lvl)
    \/ CreateLogger(PipeName)
    \/ \E l \in LoggerIds, lvl \in Levels : LoggerSetLevel(l, lvl)
    \/ \E l \in LoggerIds : CreateConsoleSink(l)
    \/ \E l \in LoggerIds, openOk \in BOOLEAN :
           CreateFileSink(l, PipeFileSize, 0, 0, openOk)
    \/ \E l \in LoggerIds, s \in SinkIds : AddSink(l, s)
    \/ \E s \in SinkIds, lvl \in Levels : SinkSetLevel(s, lvl)
    \/ \E lvl \in Levels, e \in EnvOutcomes :
           LogStmt(PipeName, lvl, PipeMsg, [s \in SinkIds |-> e])

Init == InitWith(MaxOps)

Spec == Init /\ [][Next]_vars

(***************************************************************************)
(* What the claims observe.                                                *)
(***************************************************************************)
\* record rec is in the destination of sink s (snk, lv, con: the sinks, the
\* live files and the console of one state)
Written(snk, lv, con, s, rec) ==
    IF snk[s].kind \in {"console", "wconsole"}
    THEN \E i \in DOMAIN con : con[i] = [sink |-> s, rec |-> rec]
    ELSE \E i \in DOMAIN lv[s].data : lv[s].data[i] = rec

\* the step just taken was a logging statement aimed at a registered logger
LoggedTo(l) ==
    /\ ret'.op = "log"
    /\ l = loggers_[ret'.name]
    /\ l # Null

C2_FloorBoundary ==
    ret.op = "log" /\ ret.found =>
        LET lg == logger[ret.val]
            L == ret.rec.lvl
        IN  /\ ret.enabled <=> L >= lg.lvl_
            /\ ~ret.enabled => ret.calls = <<>>
            /\ \A k \in DOMAIN ret.calls :
                  ret.calls[k].accepted <=> L >= sink[ret.calls[k].sink].lvl_
            /\ \A i \in DOMAIN lg.sink_adapters_ :
                  LET s == lg.sink_adapters_[i]
                  IN  sink[s].kind = "console" =>
                         (Written(sink, live, console, s, ret.rec)
                             <=> L >= lg.lvl_ /\ L >= sink[s].lvl_)

\* a record whose level equals both floors, above trace, was printed
C2_Witness ==
    /\ ret.op = "log"
    /\ ret.found
    /\ ret.rec.lvl > trace
    /\ logger[ret.val].lvl_ = ret.rec.lvl
    /\ \E i \in DOMAIN logger[ret.val].sink_adapters_ :
          LET s == logger[ret.val].sink_adapters_[i]
          IN  /\ sink[s].lvl_ = ret.rec.lvl
              /\ sink[s].kind = "console"
              /\ Written(sink, live, console, s, ret.rec)

(***************************************************************************)
(* C3.  Fan-out: push_record calls consume once on every adapter that      *)
(* reports open when the loop reaches it, in attachment order, and skips   *)
(* the adapters that report not open; every call carries the pushed        *)
(* record, and the console shows the record once per console sink that     *)
(* took it, in attachment order.                                           *)
(***************************************************************************)
\* the console entries the calls produce, in call order
RECURSIVE ConsoleEntries(_, _)
ConsoleEntries(calls, snk) ==
    IF calls = <<>> THEN <<>>
    ELSE LET c == Head(calls)
             rest == ConsoleEntries(Tail(calls), snk)
         IN  IF c.accepted /\ snk[c.sink].kind = "console"
             THEN <<[sink |-> c.sink, rec |-> c.rec]>> \o rest
             ELSE rest

C3_FanOut ==
    [][\A l \in LoggerIds : LoggedTo(l) /\ ret'.enabled =>
         LET ads == logger[l].sink_adapters_
             calls == ret'.calls
             called == {calls[k].adapter : k \in DOMAIN calls}
         IN  /\ \A k \in DOMAIN calls :
                   /\ calls[k].adapter \in DOMAIN ads
                   /\ calls[k].sink = ads[calls[k].adapter]
                   /\ calls[k].rec = ret'.rec
             /\ \A j, k \in DOMAIN calls :
                   j < k => calls[j].adapter < calls[k].adapter
             /\ \A i \in DOMAIN ads :
                   /\ i \in called => SinkIsOpen(sink[ads[i]])
                   /\ SinkIsOpen(sink[ads[i]]) /\ SinkIsOpen(sink'[ads[i]])
                          => i \in called
                   /\ SinkIsOpen(sink[ads[i]])
                          /\ (\A h \in DOMAIN ads : h < i => ads[h] # ads[i])
                          => i \in called
             /\ console' = console \o ConsoleEntries(calls, sink)]_vars

\* a push skipped a closed adapter and delivered to the adapter after it
C3_Witness ==
    /\ ret.op = "log"
    /\ ret.enabled
    /\ Len(logger[ret.val].sink_adapters_) >= 2
    /\ ~SinkIsOpen(sink[logger[ret.val].sink_adapters_[1]])
    /\ \E k \in DOMAIN ret.calls :
          /\ ret.calls[k].adapter = 2
          /\ Written(sink, live, console, ret.calls[k].sink, ret.rec)

(***************************************************************************)
(* SpecReg: the registry.  Two names; loggers made by create_logger or by  *)
(* the caller and added with add_logger.                                   *)
(***************************************************************************)
NextReg ==
    \/ \E lvl \in Levels : SetLevel(lvl)
    \/ \E n \in Names : CreateLogger(n)
    \/ \E n \in Names : NewLogger(n)
    \/ \E l \in LoggerIds : AddLogger(l)
    \/ \E n \in Names, f \in Levels : GetLogger(n, f)
    \/ \E n \in Names : EraseLogger(n)
    \/ EraseAllLogger

SpecReg == InitWith(MaxRegOps) /\ [][NextReg]_vars

(***************************************************************************)
(* C4.  Registry uniqueness sequence: create_logger(name) succeeds exactly *)
(* when no logger is registered under name, and then registers a new       *)
(* logger under it; it fails with the name-collision error while one is    *)
(* registered; erase_logger(name) and erase_all_logger leave the name      *)
(* unregistered, so that a further create_logger(name) succeeds.           *)
(***************************************************************************)
C4_CreateEraseCreate ==
    [][/\ (ret'.op = "create_logger") =>
             (/\ ret'.threw <=> (loggers_[ret'.name] # Null)
              /\ (~ret'.threw) =>
                    (/\ ret'.val # Null
                     /\ ~logger[ret'.val].alive
                     /\ logger'[ret'.val].name = ret'.name
                     /\ loggers_'[ret'.name] = ret'.val))
       /\ (ret'.op = "erase_logger") =>
             (loggers_' = [loggers_ EXCEPT ![ret'.name] = Null])
       /\ (ret'.op = "erase_all_logger") =>
             (\A n \in Names : loggers_'[n] = Null)]_vars

\* create_logger(name) has succeeded again after an erase removed the
\* logger first registered under the name
C4_Witness ==
    /\ ret.op = "create_logger"
    /\ ~ret.threw
    /\ \E l \in erased :
          /\ l # ret.val
          /\ logger[l].name = ret.name
          /\ loggers_[ret.name] = ret.val

(***************************************************************************)
(* C5.  A create_logger or add_logger call on a name that is taken fails   *)
(* and leaves the registry unchanged: the same names are registered and    *)
(* each still maps to the logger registered first.  In every state a name  *)
(* maps to at most one logger, and that logger bears the name.             *)
(***************************************************************************)
C5_FailedCreateKeepsRegistry ==
    [][/\ (ret'.op \in {"create_logger", "add_logger"}
              /\ loggers_[ret'.name] # Null)
              => (/\ ret'.threw
                  /\ ret'.val = Null
                  /\ loggers_' = loggers_
                  /\ logger' = logger)
       /\ \A n \in Names :
             loggers_'[n] # Null =>
                /\ logger'[loggers_'[n]].alive
                /\ logger'[loggers_'[n]].name = n]_vars

\* add_logger has rejected a logger whose name is taken by another logger
C5_Witness ==
    /\ ret.op = "add_logger"
    /\ ret.threw
    /\ loggers_[ret.name] # Null
    /\ loggers_[ret.name] # ret.arg

(***************************************************************************)
(* C6, as stated.  get_logger(name) never raises an error and returns the  *)
(* logger registered under name when one is registered, and null when      *)
(* none is, after any sequence of registry calls (set_level included).     *)
(***************************************************************************)
C6_GetLoggerAsStated ==
    ret.op = "get_logger" /\ ret.lvl = DefaultFilter =>
        /\ ~ret.threw
        /\ ret.val = loggers_[ret.name]

(***************************************************************************)
(* SpecFile: one logger with one file sink, and logging statements of all  *)
(* sizes at one level; the file system may refuse the rename and the       *)
(* reopen of a rotation.                                                   *)
(***************************************************************************)
FileLvl == info

NextFile ==
    \/ CreateLogger(PipeName)
    \/ \E l \in LoggerIds, mx \in 1..MaxFileSize, old \in 0..MaxOldSize,
          oldbak \in 0..1, openOk \in BOOLEAN :
           /\ logger[l].sink_adapters_ = <<>>
           /\ CreateFileSink(l, mx, old, oldbak, openOk)
    \/ \E m \in MsgSizes, e \in EnvOutcomes :
           LogStmt(PipeName, FileLvl, m, [s \in SinkIds |-> e])

SpecFile == InitWith(MaxFileOps) /\ [][NextFile]_vars

\* the step just taken handed a record to file sink s, which was open
WroteTo(s) ==
    /\ ret'.op = "log"
    /\ ret'.enabled
    /\ sink[s].kind = "file"
    /\ SinkIsOpen(sink[s])
    /\ \E k \in DOMAIN ret'.calls : ret'.calls[k].sink = s

(***************************************************************************)
(* C7.  Rotation trigger: before a write to an open file sink whose file   *)
(* has size s, with a message of size m, a rotation is performed if and    *)
(* only if s + m >= max_file_size.  Without rotation the message is        *)
(* appended to the file and the backup is untouched; with it the file is   *)
(* closed, renamed to the backup (when the file system lets it) and        *)
(* reopened empty, and the message is its only content; when the reopen    *)
(* fails the sink is closed and nothing is written.                        *)
(***************************************************************************)
C7_RotationTrigger ==
    [][\A s \in SinkIds : WroteTo(s) =>
         LET rec == ret'.rec
             e == ret'.env[s]
             size == FileSize(live[s])
         IN  IF size + rec.m < sink[s].max_file_size_
             THEN /\ live'[s] = [exists |-> TRUE,
                                 data |-> Append(live[s].data, rec)]
                  /\ bak'[s] = bak[s]
                  /\ SinkIsOpen(sink'[s])
             ELSE /\ bak'[s] = IF e.renameOk THEN live[s] ELSE bak[s]
                  /\ SinkIsOpen(sink'[s]) <=> e.openOk
                  /\ e.openOk => live'[s] = [exists |-> TRUE, data |-> <<rec>>]
                  /\ ~e.openOk =>
                        live'[s] = IF e.renameOk THEN NoFile ELSE live[s]]_vars

\* a write that exactly reached the cap has rotated a file that held records
C7_Witness ==
    /\ ret.op = "log"
    /\ \E s \in SinkIds :
          /\ sink[s].kind = "file"
          /\ bak[s].exists
          /\ bak[s].data # <<>>
          /\ FileSize(bak[s]) + ret.rec.m = sink[s].max_file_size_
          /\ live[s].data = <<ret.rec>>
          /\ \A i \in DOMAIN bak[s].data : bak[s].data[i].id >= 1

(***************************************************************************)
(* C8.  Rotation content: when a write crosses max_file_size and the file  *)
(* system lets the rotation rename and reopen, the backup afterwards holds *)
(* exactly what the live file held just before, whatever the backup held,  *)
(* and the live file holds only the rotating record; later writes that do  *)
(* not cross append to the live file and leave the backup alone.  So the   *)
(* backup and the live file together hold an unbroken run of records.      *)
(***************************************************************************)
C8_RotationContent ==
    [][\A s \in SinkIds :
         WroteTo(s) /\ ret'.env[s].renameOk /\ ret'.env[s].openOk =>
            LET rec == ret'.rec
                crosses == FileSize(live[s]) + rec.m >= sink[s].max_file_size_
            IN  /\ crosses =>
                      /\ bak'[s] = live[s]
                      /\ live'[s].data = <<rec>>
                /\ ~crosses =>
                      /\ bak'[s] = bak[s]
                      /\ live'[s].data = Append(live[s].data, rec)
                /\ ~ret'.threw]_vars

\* the threshold was crossed a second time: the backup holds a file that
\* itself began with a rotating write, and the live file the newest record
C8_Witness ==
    /\ ret.op = "log"
    /\ \E s \in SinkIds :
          /\ sink[s].kind = "file"
          /\ ret.env[s].renameOk /\ ret.env[s].openOk
          /\ bak[s].exists
          /\ bak[s].data # <<>>
          /\ bak[s].data[1].id >= 2
          /\ live[s].data = <<ret.rec>>

(***************************************************************************)
(* C9.  Bounded file growth: once a file sink has written to its file, the *)
(* file's size does not exceed max_file_size by more than the size of the  *)
(* record written last; and every record is whole in one file: none is in  *)
(* both the live file and the backup, none twice in a file.                *)
(***************************************************************************)
RecIds(f) == {f.data[i].id : i \in DOMAIN f.data}

C9_BoundedGrowth ==
    \A s \in SinkIds :
        sink[s].kind = "file" =>
            /\ (\E i \in DOMAIN live[s].data : live[s].data[i].id >= 1) =>
                  FileSize(live[s]) <= sink[s].max_file_size_
                                       + live[s].data[Len(live[s].data)].m
            /\ (RecIds(live[s]) \cap RecIds(bak[s])) \subseteq {0}
            /\ \A i, j \in DOMAIN live[s].data :
                  live[s].data[i].id = live[s].data[j].id => i = j

\* a record larger than the cap is alone in the live file, which is over
\* the cap by less than that record
C9_Witness ==
    \E s \in SinkIds :
        /\ sink[s].kind = "file"
        /\ Len(live[s].data) = 1
        /\ live[s].data[1].id >= 2
        /\ FileSize(live[s]) > sink[s].max_file_size_

(***************************************************************************)
(* C10, as stated.  Rename failure during rotation: when renaming the file *)
(* to the backup fails, no error reaches the logging call and the pending  *)
(* record is written to the file after the content it already holds.       *)
(***************************************************************************)
C10_RenameFailureAsStated ==
    [][\A s \in SinkIds :
         (/\ WroteTo(s)
          /\ FileSize(live[s]) + ret'.rec.m >= sink[s].max_file_size_
          /\ ~ret'.env[s].renameOk
          /\ ret'.env[s].openOk)
         => (/\ ~ret'.threw
             /\ live'[s].data = Append(live[s].data, ret'.rec))]_vars

(***************************************************************************)
(* SpecClosed: file sinks whose file cannot be opened at construction.     *)
(* Records reach them through their logger, or through consume() called    *)
(* on the pointer create_sink returned.                                    *)
(***************************************************************************)
MaxClosedOps == 5    \* calls made in one behaviour of the closed sinks

\* basic_sink::consume(r), called by the holder of the sink's pointer
Consume(s, lvl, m, e) ==
    /\ Step
    /\ sink[s].kind # "none"
    /\ LET rec == [id |-> nrec + 1, lvl |-> lvl, m |-> m]
           W == [sink |-> sink, live |-> live, bak |-> bak,
                 console |-> console]
           c == SinkConsume(W, s, rec, e)
       IN  /\ sink' = c.W.sink
           /\ live' = c.W.live
           /\ bak' = c.W.bak
           /\ console' = c.W.console
           /\ nrec' = nrec + 1
           /\ ret' = [NoRet EXCEPT !.op = "consume", !.arg = s, !.lvl = lvl,
                                   !.rec = rec,
                                   !.calls = <<[adapter |-> 0, sink |-> s,
                                                rec |-> rec,
                                                accepted |-> c.accepted]>>,
                                   !.env = [x \in SinkIds |-> e]]
    /\ UNCHANGED <<lvl_, loggers_, logger, erased>>

NextClosed ==
    \/ CreateLogger(PipeName)
    \/ \E l \in LoggerIds, mx \in 1..MaxFileSize, old \in 0..MaxOldSize :
           CreateFileSink(l, mx, old, 0, FALSE)
    \/ \E m \in MsgSizes, e \in EnvOutcomes :
           LogStmt(PipeName, FileLvl, m, [s \in SinkIds |-> e])
    \/ \E s \in SinkIds, m \in MsgSizes, e \in EnvOutcomes :
           Consume(s, FileLvl, m, e)

SpecClosed == InitWith(MaxClosedOps) /\ [][NextClosed]_vars

(***************************************************************************)
(* C11, as stated.  Permanent closure: a file sink whose file could not be *)
(* opened at construction reports is_open = false in every later state,    *)
(* whatever records are pushed to its logger or consumed by it, and every  *)
(* push_record skips it without raising an error.  (Every file sink of     *)
(* SpecClosed is one whose file could not be opened at construction.)      *)
(***************************************************************************)
C11_PermanentClosureAsStated ==
    /\ \A s \in SinkIds : sink[s].kind = "file" => ~SinkIsOpen(sink[s])
    /\ ret.op = "log" => (ret.calls = <<>> /\ ~ret.threw)

(***************************************************************************)
(* SpecCvt: a logger with console sinks of both character types.  A narrow *)
(* record reaches a wide sink through the adapter's conversion, which the  *)
(* environment may make fail.                                              *)
(***************************************************************************)
MaxCvtOps == 5       \* calls made in one behaviour of the converting sinks

\* logger::create_sink<sink::wconsole_sink>()
CreateWConsoleSink(l) ==
    /\ Step
    /\ logger[l].alive
    /\ \E s \in SinkIds : sink[s].kind = "none"
    /\ Len(logger[l].sink_adapters_) < MaxAdapters
    /\ sink' = [sink EXCEPT ![FreshSink] =
                    [kind |-> "wconsole", lvl_ |-> trace, strm |-> "none",
                     max_file_size_ |-> 0]]
    /\ logger' = [logger EXCEPT
                      ![l].sink_adapters_ =
                          Append(logger[l].sink_adapters_, FreshSink)]
    /\ ret' = [NoRet EXCEPT !.op = "create_sink", !.arg = l, !.val = FreshSink]
    /\ UNCHANGED <<lvl_, loggers_, live, bak, console, nrec, erased>>

CvtOutcomes == [renameOk : {TRUE}, openOk : {TRUE}, cvtOk : BOOLEAN]

NextCvt ==
    \/ CreateLogger(PipeName)
    \/ \E l \in LoggerIds : CreateConsoleSink(l)
    \/ \E l \in LoggerIds : CreateWConsoleSink(l)
    \/ \E lvl \in Levels, e \in CvtOutcomes :
           LogStmt(PipeName, lvl, PipeMsg, [s \in SinkIds |-> e])

SpecCvt == InitWith(MaxCvtOps) /\ [][NextCvt]_vars

(***************************************************************************)
(* C12, as stated.  No exception escapes push_record or a logging call     *)
(* once a logger/sink pair exists: when a sink's conversion step fails     *)
(* while consuming a record, the failure stays inside that sink and the    *)
(* sinks attached after it still receive the record.                       *)
(***************************************************************************)
C12_NoExceptionEscapesAsStated ==
    [][\A l \in LoggerIds : (LoggedTo(l) /\ ret'.enabled) =>
         (/\ ~ret'.threw
          /\ \A i \in DOMAIN logger[l].sink_adapters_ :
                sink[logger[l].sink_adapters_[i]].kind = "console" =>
                   Written(sink', live', console',
                           logger[l].sink_adapters_[i], ret'.rec))]_vars

(***************************************************************************)
(* Threads.  Each thread runs one call at a time, step by step: a logging  *)
(* statement (the front-end's lookup under the registry lock, the record   *)
(* with the thread id, then push_record with each sink's write under the   *)
(* sink's lock) or registry::create_logger.  The sinks are console sinks;  *)
(* a sink prints a record in two pieces (the line, then the separator).    *)
(* The sink lock is std::mutex (the build is not TINYLOG_USE_SINGLE_THREAD)*)
(* and the registry lock is std::mutex when safe, null_mutex otherwise.    *)
(***************************************************************************)
MaxThreadOps == 2    \* calls started in one behaviour of the threads
CreateName == "b"    \* the name the threads create a logger under

\* registry mutex_type::lock() returns: at once for null_mutex, when the
\* mutex is free for std::mutex
RegCanLock == ~safe \/ reg_mtx_ = Null

\* the holder of the registry lock after thread t locked it
RegLocked(t) == IF safe THEN t ELSE Null

\* the sink the thread's push_record has reached
CurSink(t) == logger[thread[t].logger_].sink_adapters_[thread[t].i]

\* the result a finished call leaves with its thread
Res(t, op, val, threw) ==
    [op |-> op, name |-> thread[t].ln, val |-> val, threw |-> threw,
     raced |-> thread[t].res.raced]

\* a logging statement starts: the front-end is constructed
TLog(t, ln, lvl) ==
    /\ left > 0
    /\ left' = left - 1
    /\ thread[t].at = "idle"
    /\ thread' = [thread EXCEPT ![t].at = "lookup_lock", ![t].ln = ln,
                                ![t].rec = [id |-> nrec + 1, lvl |-> lvl,
                                            m |-> PipeMsg],
                                ![t].logger_ = Null, ![t].i = 1,
                                ![t].res = [NoThread.res EXCEPT !.op = "busy"]]
    /\ nrec' = nrec + 1
    /\ UNCHANGED <<lvl_, loggers_, logger, sink, live, bak, console, erased,
                   ret, mtx_, reg_mtx_, id, safe, acq, out>>

\* registry_impl::get_logger: std::lock_guard lock(mtx_)
TLookupLock(t) ==
    /\ thread[t].at = "lookup_lock"
    /\ RegCanLock
    /\ reg_mtx_' = RegLocked(t)
    /\ thread' = [thread EXCEPT ![t].at = "lookup"]
    /\ UNCHANGED <<lvl_, loggers_, logger, sink, live, bak, console, nrec,
                   erased, left, ret, mtx_, id, safe, acq, out>>

\* a get_logger that returns with the registry still locked
TLookupHold(t) ==
    /\ thread[t].at = "lookup"
    /\ reg_mtx_' = reg_mtx_
    /\ thread' = [thread EXCEPT
                      ![t].logger_ = RegistryGetLogger(loggers_, lvl_,
                                                       thread[t].ln,
                                                       thread[t].rec.lvl),
                      ![t].at = IF thread[t].thrd_id = 0 THEN "id_inc"
                                ELSE "push"]
    /\ UNCHANGED <<lvl_, loggers_, logger, sink, live, bak, console, nrec,
                   erased, left, ret, mtx_, id, safe, acq, out>>

\* registry_impl::get_logger: the lookup and the return, which unlocks; the
\* front-end then constructs its record, which asks for the thread id
TLookup(t) ==
    /\ thread[t].at = "lookup"
    /\ reg_mtx_' = Null
    /\ thread' = [thread EXCEPT
                      ![t].logger_ = RegistryGetLogger(loggers_, lvl_,
                                                       thread[t].ln,
                                                       thread[t].rec.lvl),
                      ![t].at = IF thread[t].thrd_id = 0 THEN "id_inc"
                                ELSE "push"]
    /\ UNCHANGED <<lvl_, loggers_, logger, sink, live, bak, console, nrec,
                   erased, left, ret, mtx_, id, safe, acq, out>>

\* curr_thrd_id, first call of the thread: ++id
TIdInc(t) ==
    /\ thread[t].at = "id_inc"
    /\ id' = id + 1
    /\ thread' = [thread EXCEPT ![t].at = "id_load"]
    /\ UNCHANGED <<lvl_, loggers_, logger, sink, live, bak, console, nrec,
                   erased, left, ret, mtx_, reg_mtx_, safe, acq, out>>

\* curr_thrd_id, first call of the thread: return id.load(), kept in the
\* thread_local thrd_id
TIdLoad(t) ==
    /\ thread[t].at = "id_load"
    /\ thread' = [thread EXCEPT ![t].thrd_id = id, ![t].at = "push"]
    /\ UNCHANGED <<lvl_, loggers_, logger, sink, live, bak, console, nrec,
                   erased, left, ret, mtx_, reg_mtx_, id, safe, acq, out>>

\* a push_record that delivers only while its logger is registered
TPushIfRegistered(t) ==
    /\ thread[t].at = "push"
    /\ LET lg == thread[t].logger_
           lvl == thread[t].rec.lvl
           W == [sink |-> sink, live |-> live, bak |-> bak,
                 console |-> console]
       IN  IF \/ lg = Null
              \/ loggers_[thread[t].ln] # lg
              \/ ~LoggerConsume(logger[lg], lvl)
              \/ thread[t].i > Len(logger[lg].sink_adapters_)
           THEN thread' = [thread EXCEPT ![t].at = "idle",
                                         ![t].res = Res(t, "log", lg, FALSE)]
           ELSE IF \/ ~AdapterIsOpen(W, CurSink(t))
                   \/ ~SinkAccepts(sink[CurSink(t)], lvl)
           THEN thread' = [thread EXCEPT ![t].i = thread[t].i + 1]
           ELSE thread' = [thread EXCEPT ![t].at = "sink_lock"]
    /\ UNCHANGED <<lvl_, loggers_, logger, sink, live, bak, console, nrec,
                   erased, left, ret, mtx_, reg_mtx_, id, safe, acq, out>>

\* the front-end's is_open(), then logger::push_record up to the next sink
\* that takes the record: closed adapters and sinks whose floor rejects the
\* record are passed; after the last adapter the statement is over
TPush(t) ==
    /\ thread[t].at = "push"
    /\ LET lg == thread[t].logger_
           lvl == thread[t].rec.lvl
           W == [sink |-> sink, live |-> live, bak |-> bak,
                 console |-> console]
       IN  IF \/ lg = Null
              \/ ~LoggerConsume(logger[lg], lvl)
              \/ thread[t].i > Len(logger[lg].sink_adapters_)
           THEN thread' = [thread EXCEPT ![t].at = "idle",
                                         ![t].res = Res(t, "log", lg, FALSE)]
           ELSE IF \/ ~AdapterIsOpen(W, CurSink(t))
                   \/ ~SinkAccepts(sink[CurSink(t)], lvl)
           THEN thread' = [thread EXCEPT ![t].i = thread[t].i + 1]
           ELSE thread' = [thread EXCEPT ![t].at = "sink_lock"]
    /\ UNCHANGED <<lvl_, loggers_, logger, sink, live, bak, console, nrec,
                   erased, left, ret, mtx_, reg_mtx_, id, safe, acq, out>>

\* a sink lock that does not wait (null_mutex)
TSinkLockNoWait(t) ==
    /\ thread[t].at = "sink_lock"
    /\ mtx_' = [mtx_ EXCEPT ![CurSink(t)] = t]
    /\ acq' = [acq EXCEPT ![CurSink(t)] = Append(@, thread[t].rec.id)]
    /\ thread' = [thread EXCEPT ![t].at = "write1"]
    /\ UNCHANGED <<lvl_, loggers_, logger, sink, live, bak, console, nrec,
                   erased, left, ret, reg_mtx_, id, safe, out>>

\* a sink lock that is one lock for all sinks
TSinkLockGlobal(t) ==
    /\ thread[t].at = "sink_lock"
    /\ \A s \in SinkIds : mtx_[s] = Null
    /\ mtx_' = [mtx_ EXCEPT ![CurSink(t)] = t]
    /\ acq' = [acq EXCEPT ![CurSink(t)] = Append(@, thread[t].rec.id)]
    /\ thread' = [thread EXCEPT ![t].at = "write1"]
    /\ UNCHANGED <<lvl_, loggers_, logger, sink, live, bak, console, nrec,
                   erased, left, ret, reg_mtx_, id, safe, out>>

\* basic_sink::write: std::lock_guard<mutexT> lock(mtx_)
TSinkLock(t) ==
    /\ thread[t].at = "sink_lock"
    /\ mtx_[CurSink(t)] = Null
    /\ mtx_' = [mtx_ EXCEPT ![CurSink(t)] = t]
    /\ acq' = [acq EXCEPT ![CurSink(t)] = Append(@, thread[t].rec.id)]
    /\ thread' = [thread EXCEPT ![t].at = "write1"]
    /\ UNCHANGED <<lvl_, loggers_, logger, sink, live, bak, console, nrec,
                   erased, left, ret, reg_mtx_, id, safe, out>>

\* a sink that puts a record's line before what it has printed
TWrite1First(t) ==
    /\ thread[t].at = "write1"
    /\ out' = [out EXCEPT ![CurSink(t)] =
                   <<[rec |-> thread[t].rec, part |-> 1]>> \o @]
    /\ thread' = [thread EXCEPT ![t].at = "write2"]
    /\ UNCHANGED <<lvl_, loggers_, logger, sink, live, bak, console, nrec, erased,
                   left, ret, mtx_, reg_mtx_, id, safe, acq>>

\* basic_console_sink::writing: write_line
TWrite1(t) ==
    /\ thread[t].at = "write1"
    /\ out' = [out EXCEPT ![CurSink(t)] =
                   Append(@, [rec |-> thread[t].rec, part |-> 1])]
    /\ thread' = [thread EXCEPT ![t].at = "write2"]
    /\ UNCHANGED <<lvl_, loggers_, logger, sink, live, bak, console, nrec, erased,
                   left, ret, mtx_, reg_mtx_, id, safe, acq>>

\* basic_console_sink::writing: write_line_sep
TWrite2(t) ==
    /\ thread[t].at = "write2"
    /\ out' = [out EXCEPT ![CurSink(t)] =
                   Append(@, [rec |-> thread[t].rec, part |-> 2])]
    /\ thread' = [thread EXCEPT ![t].at = "sink_unlock"]
    /\ UNCHANGED <<lvl_, loggers_, logger, sink, live, bak, console, nrec, erased,
                   left, ret, mtx_, reg_mtx_, id, safe, acq>>

\* a write that keeps the sink's lock when it returns
TSinkUnlockKeep(t) ==
    /\ thread[t].at = "sink_unlock"
    /\ thread' = [thread EXCEPT ![t].at = "push", ![t].i = thread[t].i + 1]
    /\ UNCHANGED <<lvl_, loggers_, logger, sink, live, bak, console, nrec,
                   erased, left, ret, mtx_, reg_mtx_, id, safe, acq, out>>

\* basic_sink::write: the lock_guard's scope ends; push_record goes on to
\* the next adapter
TSinkUnlock(t) ==
    /\ thread[t].at = "sink_unlock"
    /\ mtx_' = [mtx_ EXCEPT ![CurSink(t)] = Null]
    /\ thread' = [thread EXCEPT ![t].at = "push", ![t].i = thread[t].i + 1]
    /\ UNCHANGED <<lvl_, loggers_, logger, sink, live, bak, console, nrec,
                   erased, left, ret, reg_mtx_, id, safe, acq, out>>

\* the threads inside create_logger before the new logger is allocated
Creating == {u \in Threads : thread[u].at \in {"create_lock", "create_check"}}

\* registry::create_logger(n) starts
TCreate(t, n) ==
    /\ left > 0
    /\ left' = left - 1
    /\ thread[t].at = "idle"
    /\ Cardinality({l \in LoggerIds : ~logger[l].alive})
           > Cardinality(Creating)
    /\ thread' = [thread EXCEPT
                      ![t].at = "create_lock", ![t].ln = n,
                      ![t].logger_ = Null,
                      ![t].res = [NoThread.res EXCEPT
                                      !.op = "busy",
                                      !.raced = \E u \in Threads :
                                                   /\ u # t
                                                   /\ thread[u].res.op = "busy"
                                                   /\ thread[u].ln = n
                                                   /\ thread[u].at \in
                                                        {"create_lock",
                                                         "create_check",
                                                         "create_insert"}]]
    /\ UNCHANGED <<lvl_, loggers_, logger, sink, live, bak, console, nrec,
                   erased, ret, mtx_, reg_mtx_, id, safe, acq, out>>

\* a create_logger whose registry lock does not wait
TCreateLockNoWait(t) ==
    /\ thread[t].at = "create_lock"
    /\ reg_mtx_' = RegLocked(t)
    /\ thread' = [thread EXCEPT ![t].at = "create_check"]
    /\ UNCHANGED <<lvl_, loggers_, logger, sink, live, bak, console, nrec,
                   erased, left, ret, mtx_, id, safe, acq, out>>

\* registry_impl::create_logger: std::lock_guard lock(mtx_)
TCreateLock(t) ==
    /\ thread[t].at = "create_lock"
    /\ RegCanLock
    /\ reg_mtx_' = RegLocked(t)
    /\ thread' = [thread EXCEPT ![t].at = "create_check"]
    /\ UNCHANGED <<lvl_, loggers_, logger, sink, live, bak, console, nrec,
                   erased, left, ret, mtx_, id, safe, acq, out>>

\* registry_impl::create_logger: throw_if_exists, which throws (the
\* lock_guard unlocks) or is followed by std::make_shared<logger_t>
TCreateCheck(t) ==
    /\ thread[t].at = "create_check"
    /\ IF ThrowIfExists(loggers_, thread[t].ln)
       THEN /\ thread' = [thread EXCEPT ![t].at = "idle",
                                        ![t].res = Res(t, "create_logger",
                                                       Null, TRUE)]
            /\ reg_mtx_' = Null
            /\ UNCHANGED logger
       ELSE /\ logger' = [logger EXCEPT ![FreshLogger] =
                              [alive |-> TRUE, name |-> thread[t].ln,
                               lvl_ |-> trace, sink_adapters_ |-> <<>>]]
            /\ thread' = [thread EXCEPT ![t].at = "create_insert",
                                        ![t].logger_ = FreshLogger]
            /\ UNCHANGED reg_mtx_
    /\ UNCHANGED <<lvl_, loggers_, sink, live, bak, console, nrec, erased,
                   left, ret, mtx_, id, safe, acq, out>>

\* registry_impl::create_logger: loggers_[logger_name] = p; return p, which
\* unlocks
TCreateInsert(t) ==
    /\ thread[t].at = "create_insert"
    /\ loggers_' = [loggers_ EXCEPT ![thread[t].ln] = thread[t].logger_]
    /\ reg_mtx_' = Null
    /\ thread' = [thread EXCEPT ![t].at = "idle",
                                ![t].res = Res(t, "create_logger",
                                               thread[t].logger_, FALSE)]
    /\ UNCHANGED <<lvl_, logger, sink, live, bak, console, nrec, erased,
                   left, ret, mtx_, id, safe, acq, out>>

\* The program before its threads start: the main thread has registered
\* logger PipeName with two console sinks; the build is either one.
InitThreads ==
    /\ lvl_ = trace
    /\ loggers_ = [n \in Names |-> IF n = PipeName THEN 1 ELSE Null]
    /\ logger = [l \in LoggerIds |->
                    IF l = 1
                    THEN [alive |-> TRUE, name |-> PipeName, lvl_ |-> trace,
                          sink_adapters_ |-> <<1, 2>>]
                    ELSE NoLogger]
    /\ sink = [s \in SinkIds |->
                  IF s <= 2
                  THEN [kind |-> "console", lvl_ |-> trace, strm |-> "none",
                        max_file_size_ |-> 0]
                  ELSE NoSink]
    /\ live = [s \in SinkIds |-> NoFile]
    /\ bak = [s \in SinkIds |-> NoFile]
    /\ console = <<>>
    /\ nrec = 0
    /\ erased = {}
    /\ left = MaxThreadOps
    /\ ret = NoRet
    /\ thread = [t \in Threads |-> NoThread]
    /\ mtx_ = [s \in SinkIds |-> Null]
    /\ reg_mtx_ = Null
    /\ id = 0
    /\ safe \in BOOLEAN
    /\ acq = [s \in SinkIds |-> <<>>]
    /\ out = [s \in SinkIds |-> <<>>]

NextThreads ==
    \/ \E t \in Threads : TLog(t, PipeName, FileLvl)
    \/ \E t \in Threads : TLookupLock(t)
    \/ \E t \in Threads : TLookup(t)
    \/ \E t \in Threads : TIdInc(t)
    \/ \E t \in Threads : TIdLoad(t)
    \/ \E t \in Threads : TPush(t)
    \/ \E t \in Threads : TSinkLock(t)
    \/ \E t \in Threads : TWrite1(t)
    \/ \E t \in Threads : TWrite2(t)
    \/ \E t \in Threads : TSinkUnlock(t)
    \/ \E t \in Threads : TCreate(t, CreateName)
    \/ \E t \in Threads : TCreateLock(t)
    \/ \E t \in Threads : TCreateCheck(t)
    \/ \E t \in Threads : TCreateInsert(t)

SpecThreads == InitThreads /\ [][NextThreads]_vars

\* what sink s has printed, in order
SinkOutput(s) == out[s]

\* the threads inside the locked section of sink s
InWrite(s) ==
    {t \in Threads : /\ thread[t].at \in {"write1", "write2", "sink_unlock"}
                     /\ CurSink(t) = s}

\* C13: per-sink serialization.  For every sink, at most one thread is
\* inside the locked section; the sink's output is a sequence of whole
\* records, the two pieces of a record next to each other; and the records
\* appear in the order in which the sink's lock was acquired.
C13_PerSinkSerialization ==
    \A s \in SinkIds :
        LET printed == SinkOutput(s)
        IN  /\ Cardinality(InWrite(s)) <= 1
            /\ \A k \in 1..Len(printed) :
                   IF k % 2 = 1
                   THEN printed[k].part = 1
                   ELSE printed[k].part = 2 /\ printed[k].rec = printed[k - 1].rec
            /\ (Len(printed) + 1) \div 2 <= Len(acq[s])
            /\ \A k \in 1..Len(printed) :
                   printed[k].rec.id = acq[s][(k + 1) \div 2]

\* C13 witness: a sink has printed a whole record and holds its lock for one
\* thread while another thread waits for it.
C13_Witness ==
    \E s \in SinkIds, t, u \in Threads :
        /\ Len(SinkOutput(s)) >= 2
        /\ mtx_[s] = u
        /\ t # u
        /\ thread[t].at = "sink_lock"
        /\ CurSink(t) = s

\* one step of thread t inside a call it has started
ThreadStep(t) ==
    \/ TLookupLock(t)
    \/ TLookup(t)
    \/ TIdInc(t)
    \/ TIdLoad(t)
    \/ TPush(t)
    \/ TSinkLock(t)
    \/ TWrite1(t)
    \/ TWrite2(t)
    \/ TSinkUnlock(t)
    \/ TCreateLock(t)
    \/ TCreateCheck(t)
    \/ TCreateInsert(t)

\* the locks thread t holds: sink locks by sink, the registry lock as Null
Held(t) ==
    {s \in SinkIds : mtx_[s] = t} \cup (IF reg_mtx_ = t THEN {Null} ELSE {})

\* C14: lock discipline.  No thread ever holds two locks at once (two sink
\* locks, or a sink lock and the registry lock), and the locks never
\* deadlock: while some thread is inside a call, some thread inside a call
\* can take its next step, and whoever holds a lock another thread waits for
\* is not itself waiting for a lock.
C14_LockDiscipline ==
    /\ \A t \in Threads : Cardinality(Held(t)) <= 1
    /\ (\E t \in Threads : thread[t].at # "idle")
           => (\E t \in Threads : ENABLED ThreadStep(t))
    /\ \A t \in Threads :
           /\ (thread[t].at = "sink_lock" /\ mtx_[CurSink(t)] # Null)
                  => thread[mtx_[CurSink(t)]].at
                         \in {"write1", "write2", "sink_unlock"}
           /\ (thread[t].at \in {"lookup_lock", "create_lock"}
                   /\ reg_mtx_ # Null)
                  => thread[reg_mtx_].at
                         \in {"lookup", "create_check", "create_insert"}

\* C14 witness: with a locking registry, one thread holds the lock of the
\* second sink (having released the first sink's) while another thread,
\* which came through the registry lock after it, holds the first sink's.
C14_Witness ==
    /\ safe
    /\ \E t, u \in Threads :
           /\ t # u
           /\ mtx_[2] = t
           /\ mtx_[1] = u
           /\ Len(acq[1]) >= 2

\* C15: thread-id uniqueness.  No two distinct threads are assigned the same
\* thread id, and a thread keeps the id it was assigned.
C15_ThreadIdUniqueAsStated ==
    [][/\ \A t, u \in Threads :
              (t # u /\ thread'[t].thrd_id # 0 /\ thread'[u].thrd_id # 0)
                  => thread'[t].thrd_id # thread'[u].thrd_id
       /\ \A t \in Threads :
              thread[t].thrd_id # 0
                  => thread'[t].thrd_id = thread[t].thrd_id]_vars

(***************************************************************************)
(* A slow sink.  Logger PipeName writes to sinks 1 and 2, logger CreateName *)
(* to sink 2 only.  A thread inside the locked section of SlowSink may stay *)
(* there for ever; every other step of a thread is taken eventually.        *)
(***************************************************************************)
MaxSlowOps == 2    \* logging statements started in one behaviour
SlowSink == 1

\* the sinks a logger's push_record can write to
Targets(l) ==
    {logger[l].sink_adapters_[k] : k \in 1..Len(logger[l].sink_adapters_)}

\* The program after the main thread registered the two loggers and every
\* thread was assigned its thread id; the registry locks.
InitSlow ==
    /\ lvl_ = trace
    /\ loggers_ = [n \in Names |-> IF n = PipeName THEN 1 ELSE 2]
    /\ logger = [l \in LoggerIds |->
                    IF l = 1
                    THEN [alive |-> TRUE, name |-> PipeName, lvl_ |-> trace,
                          sink_adapters_ |-> <<1, 2>>]
                    ELSE IF l = 2
                    THEN [alive |-> TRUE, name |-> CreateName, lvl_ |-> trace,
                          sink_adapters_ |-> <<2>>]
                    ELSE NoLogger]
    /\ sink = [s \in SinkIds |->
                  IF s <= 2
                  THEN [kind |-> "console", lvl_ |-> trace, strm |-> "none",
                        max_file_size_ |-> 0]
                  ELSE NoSink]
    /\ live = [s \in SinkIds |-> NoFile]
    /\ bak = [s \in SinkIds |-> NoFile]
    /\ console = <<>>
    /\ nrec = 0
    /\ erased = {}
    /\ left = MaxSlowOps
    /\ ret = NoRet
    /\ thread = [t \in Threads |-> [NoThread EXCEPT !.thrd_id = t]]
    /\ mtx_ = [s \in SinkIds |-> Null]
    /\ reg_mtx_ = Null
    /\ id = MaxThreads
    /\ safe = TRUE
    /\ acq = [s \in SinkIds |-> <<>>]
    /\ out = [s \in SinkIds |-> <<>>]

NextSlow ==
    \/ \E t \in Threads, n \in {PipeName, CreateName} : TLog(t, n, FileLvl)
    \/ \E t \in Threads : TLookupLock(t)
    \/ \E t \in Threads : TLookup(t)
    \/ \E t \in Threads : TPush(t)
    \/ \E t \in Threads : TSinkLock(t)
    \/ \E t \in Threads : TWrite1(t)
    \/ \E t \in Threads : TWrite2(t)
    \/ \E t \in Threads : TSinkUnlock(t)

\* the steps of thread t that are taken eventually: all but those inside
\* the locked section of SlowSink
Running(t) ==
    \/ TLookupLock(t)
    \/ TLookup(t)
    \/ TPush(t)
    \/ TSinkLock(t)
    \/ (TWrite1(t) /\ CurSink(t) # SlowSink)
    \/ (TWrite2(t) /\ CurSink(t) # SlowSink)
    \/ (TSinkUnlock(t) /\ CurSink(t) # SlowSink)

SpecSlow ==
    InitSlow /\ [][NextSlow]_vars /\ \A t \in Threads : WF_vars(Running(t))

\* thread t is at SlowSink: waiting for its lock or inside its section
AtSlowSink(t) ==
    /\ thread[t].at \in {"sink_lock", "write1", "write2", "sink_unlock"}
    /\ CurSink(t) = SlowSink

\* C16: isolation of a slow sink.  Whatever thread stays inside SlowSink's
\* locked section, a thread inside a logging statement either finishes the
\* statement or is itself at SlowSink (waiting for its lock or inside), and
\* a thread whose push_record targets only other sinks finishes.
C16_SlowSinkIsolation ==
    \A t \in Threads :
        /\ (thread[t].at # "idle") ~> (thread[t].at = "idle" \/ AtSlowSink(t))
        /\ (/\ thread[t].at = "push"
            /\ thread[t].logger_ # Null
            /\ SlowSink \notin Targets(thread[t].logger_))
               ~> (thread[t].at = "idle")

\* C16 witness: a thread is inside SlowSink's locked section, and another
\* thread, whose statement started later and targets only the other sink,
\* has finished it with its record printed there.
C16_Witness ==
    \E t, u \in Threads :
        /\ t # u
        /\ thread[u].at = "write1"
        /\ CurSink(u) = SlowSink
        /\ thread[t].at = "idle"
        /\ thread[t].res.op = "log"
        /\ thread[t].rec.id > thread[u].rec.id
        /\ SlowSink \notin Targets(thread[t].res.val)
        /\ \E k \in 1..Len(out[2]) :
               /\ out[2][k].part = 2
               /\ out[2][k].rec = thread[t].rec

(***************************************************************************)
(* Fair scheduling.  The registry locks, every thread has its thread id,   *)
(* and every thread inside a call is scheduled again and again.            *)
(***************************************************************************)
MaxFairOps == 2    \* calls started in one behaviour

\* The program after the main thread registered logger PipeName with two
\* console sinks and every thread was assigned its thread id.
InitFair ==
    /\ lvl_ = trace
    /\ loggers_ = [n \in Names |-> IF n = PipeName THEN 1 ELSE Null]
    /\ logger = [l \in LoggerIds |->
                    IF l = 1
                    THEN [alive |-> TRUE, name |-> PipeName, lvl_ |-> trace,
                          sink_adapters_ |-> <<1, 2>>]
                    ELSE NoLogger]
    /\ sink = [s \in SinkIds |->
                  IF s <= 2
                  THEN [kind |-> "console", lvl_ |-> trace, strm |-> "none",
                        max_file_size_ |-> 0]
                  ELSE NoSink]
    /\ live = [s \in SinkIds |-> NoFile]
    /\ bak = [s \in SinkIds |-> NoFile]
    /\ console = <<>>
    /\ nrec = 0
    /\ erased = {}
    /\ left = MaxFairOps
    /\ ret = NoRet
    /\ thread = [t \in Threads |-> [NoThread EXCEPT !.thrd_id = t]]
    /\ mtx_ = [s \in SinkIds |-> Null]
    /\ reg_mtx_ = Null
    /\ id = MaxThreads
    /\ safe = TRUE
    /\ acq = [s \in SinkIds |-> <<>>]
    /\ out = [s \in SinkIds |-> <<>>]

NextFair ==
    \/ \E t \in Threads : TLog(t, PipeName, FileLvl)
    \/ \E t \in Threads : TLookupLock(t)
    \/ \E t \in Threads : TLookup(t)
    \/ \E t \in Threads : TPush(t)
    \/ \E t \in Threads : TSinkLock(t)
    \/ \E t \in Threads : TWrite1(t)
    \/ \E t \in Threads : TWrite2(t)
    \/ \E t \in Threads : TSinkUnlock(t)
    \/ \E t \in Threads : TCreate(t, CreateName)
    \/ \E t \in Threads : TCreateLock(t)
    \/ \E t \in Threads : TCreateCheck(t)
    \/ \E t \in Threads : TCreateInsert(t)

SpecFair ==
    InitFair /\ [][NextFair]_vars /\ \A t \in Threads : WF_vars(ThreadStep(t))

Returned(t) ==
    /\ thread[t].at = "idle"
    /\ thread[t].res.op = "create_logger"
    /\ thread[t].res.name = CreateName

\* the loggers create_logger(CreateName) calls have made: one per call that
\* passed throw_if_exists
Created == {l \in LoggerIds : logger[l].alive /\ logger[l].name = CreateName}

C19_RegistryDefaultFloorAsStated ==
    [][(ret'.op = "create_logger" /\ ~ret'.threw)
           => logger'[ret'.val].lvl_ = lvl_']_vars

(***************************************************************************)
(* push_record called on a logger handle, without a front-end: the caller  *)
(* constructs the record and hands it to logger::push_record.              *)
(***************************************************************************)
MaxPushOps == 4    \* calls in one behaviour

\* lg->push_record(r) with r a record of level lvl and size m
PushRecordDirect(l, lvl, m, env) ==
    /\ Step
    /\ logger[l].alive
    /\ LET rec == [id |-> nrec + 1, lvl |-> lvl, m |-> m]
           W == [sink |-> sink, live |-> live, bak |-> bak,
                 console |-> console]
           r == PushRecord(W, logger[l], rec, env)
       IN  /\ sink' = r.W.sink
           /\ live' = r.W.live
           /\ bak' = r.W.bak
           /\ console' = r.W.console
           /\ nrec' = nrec + 1
           /\ ret' = [NoRet EXCEPT !.op = "push_record",
                                   !.name = logger[l].name, !.lvl = lvl,
                                   !.val = l, !.rec = rec,
                                   !.threw = r.threw, !.found = TRUE,
                                   !.calls = r.calls, !.env = env]
    /\ UNCHANGED <<lvl_, loggers_, logger, erased>>

\* the streams work: no rename or open fails
EnvOk == [s \in SinkIds |-> [renameOk |-> TRUE, openOk |-> TRUE]]

NextPush ==
    \/ CreateLogger(PipeName)
    \/ \E l \in LoggerIds, lvl \in Levels : LoggerSetLevel(l, lvl)
    \/ \E l \in LoggerIds : CreateConsoleSink(l)
    \/ \E lvl \in Levels : LogStmt(PipeName, lvl, PipeMsg, EnvOk)
    \/ \E l \in LoggerIds, lvl \in Levels :
           PushRecordDirect(l, lvl, PipeMsg, EnvOk)

SpecPush == InitWith(MaxPushOps) /\ [][NextPush]_vars

\* C20: the logger checks severity when a record is pushed.  A record whose
\* level is below the logger's floor reaches no sink adapter, whether
\* push_record was invoked by a logging statement or called on the logger.
C20_LoggerChecksSeverityAsStated ==
    [][(/\ ret'.op \in {"log", "push_record"}
        /\ ret'.val # Null
        /\ ret'.rec.lvl < logger[ret'.val].lvl_)
           => ret'.calls = <<>>]_vars

(***************************************************************************)
(* Erase while records are in flight.  Threads log to PipeName and erase   *)
(* it from the registry (erase_logger, erase_all_logger), step by step.    *)
(* The front-end keeps the shared_ptr get_logger returned, so the logger   *)
(* object lives on after the registry dropped its own pointer.             *)
(***************************************************************************)
MaxEraseOps == 2    \* calls started in one behaviour

\* the threads that hold logger l in a front-end that has not flushed yet
InFlight(l) ==
    {u \in Threads : /\ thread[u].logger_ = l
                     /\ thread[u].at \in {"push", "sink_lock", "write1",
                                          "write2", "sink_unlock"}}

\* registry::erase_logger(n) starts
TErase(t, n) ==
    /\ left > 0
    /\ left' = left - 1
    /\ thread[t].at = "idle"
    /\ thread' = [thread EXCEPT ![t].at = "erase_lock", ![t].ln = n,
                                ![t].logger_ = Null,
                                ![t].res = [NoThread.res EXCEPT !.op = "busy"]]
    /\ UNCHANGED <<lvl_, loggers_, logger, sink, live, bak, console, nrec,
                   erased, ret, mtx_, reg_mtx_, id, safe, acq, out>>

\* registry::erase_all_logger() starts
TEraseAll(t) ==
    /\ left > 0
    /\ left' = left - 1
    /\ thread[t].at = "idle"
    /\ thread' = [thread EXCEPT ![t].at = "erase_all_lock", ![t].ln = "",
                                ![t].logger_ = Null,
                                ![t].res = [NoThread.res EXCEPT !.op = "busy"]]
    /\ UNCHANGED <<lvl_, loggers_, logger, sink, live, bak, console, nrec,
                   erased, ret, mtx_, reg_mtx_, id, safe, acq, out>>

\* registry_impl::erase_logger / erase_all_logger:
\* std::lock_guard lock(mtx_)
TEraseLock(t) ==
    /\ thread[t].at \in {"erase_lock", "erase_all_lock"}
    /\ RegCanLock
    /\ reg_mtx_' = RegLocked(t)
    /\ thread' = [thread EXCEPT ![t].at = IF thread[t].at = "erase_lock"
                                          THEN "erase" ELSE "erase_all"]
    /\ UNCHANGED <<lvl_, loggers_, logger, sink, live, bak, console, nrec,
                   erased, left, ret, mtx_, id, safe, acq, out>>

\* registry_impl::erase_logger: loggers_.erase(logger_name) and the return,
\* which unlocks.  raced: a front-end held the logger at that moment.
TEraseDo(t) ==
    /\ thread[t].at = "erase"
    /\ loggers_' = [loggers_ EXCEPT ![thread[t].ln] = Null]
    /\ erased' = erased \cup ({loggers_[thread[t].ln]} \ {Null})
    /\ reg_mtx_' = Null
    /\ thread' = [thread EXCEPT
                      ![t].at = "idle",
                      ![t].res = [op |-> "erase_logger",
                                  name |-> thread[t].ln,
                                  val |-> loggers_[thread[t].ln],
                                  threw |-> FALSE,
                                  raced |-> /\ loggers_[thread[t].ln] # Null
                                            /\ InFlight(loggers_[thread[t].ln])
                                                   # {}]]
    /\ UNCHANGED <<lvl_, logger, sink, live, bak, console, nrec, left, ret,
                   mtx_, id, safe, acq, out>>

\* registry_impl::erase_all_logger: loggers_.clear() and the return, which
\* unlocks
TEraseAllDo(t) ==
    /\ thread[t].at = "erase_all"
    /\ loggers_' = [n \in Names |-> Null]
    /\ erased' = erased \cup ({loggers_[n] : n \in Names} \ {Null})
    /\ reg_mtx_' = Null
    /\ thread' = [thread EXCEPT
                      ![t].at = "idle",
                      ![t].res = [op |-> "erase_all_logger", name |-> "",
                                  val |-> Null, threw |-> FALSE,
                                  raced |-> \E n \in Names :
                                                /\ loggers_[n] # Null
                                                /\ InFlight(loggers_[n])
                                                       # {}]]
    /\ UNCHANGED <<lvl_, logger, sink, live, bak, console, nrec, left, ret,
                   mtx_, id, safe, acq, out>>

\* The program after the main thread registered logger PipeName with two
\* console sinks and every thread was assigned its thread id; the registry
\* locks.
InitErase ==
    /\ lvl_ = trace
    /\ loggers_ = [n \in Names |-> IF n = PipeName THEN 1 ELSE Null]
    /\ logger = [l \in LoggerIds |->
                    IF l = 1
                    THEN [alive |-> TRUE, name |-> PipeName, lvl_ |-> trace,
                          sink_adapters_ |-> <<1, 2>>]
                    ELSE NoLogger]
    /\ sink = [s \in SinkIds |->
                  IF s <= 2
                  THEN [kind |-> "console", lvl_ |-> trace, strm |-> "none",
                        max_file_size_ |-> 0]
                  ELSE NoSink]
    /\ live = [s \in SinkIds |-> NoFile]
    /\ bak = [s \in SinkIds |-> NoFile]
    /\ console = <<>>
    /\ nrec = 0
    /\ erased = {}
    /\ left = MaxEraseOps
    /\ ret = NoRet
    /\ thread = [t \in Threads |-> [NoThread EXCEPT !.thrd_id = t]]
    /\ mtx_ = [s \in SinkIds |-> Null]
    /\ reg_mtx_ = Null
    /\ id = MaxThreads
    /\ safe = TRUE
    /\ acq = [s \in SinkIds |-> <<>>]
    /\ out = [s \in SinkIds |-> <<>>]

NextErase ==
    \/ \E t \in Threads : TLog(t, PipeName, FileLvl)
    \/ \E t \in Threads : TLookupLock(t)
    \/ \E t \in Threads : TLookup(t)
    \/ \E t \in Threads : TPush(t)
    \/ \E t \in Threads : TSinkLock(t)
    \/ \E t \in Threads : TWrite1(t)
    \/ \E t \in Threads : TWrite2(t)
    \/ \E t \in Threads : TSinkUnlock(t)
    \/ \E t \in Threads : TErase(t, PipeName)
    \/ \E t \in Threads : TEraseAll(t)
    \/ \E t \in Threads : TEraseLock(t)
    \/ \E t \in Threads : TEraseDo(t)
    \/ \E t \in Threads : TEraseAllDo(t)

SpecErase == InitErase /\ [][NextErase]_vars

\* sink s has printed record rec whole
Printed(s, rec) ==
    /\ \E k \in 1..Len(out[s]) : out[s][k].part = 1 /\ out[s][k].rec = rec
    /\ \E k \in 1..Len(out[s]) : out[s][k].part = 2 /\ out[s][k].rec = rec

\* C21: erase does not affect records in flight.  A logging statement whose
\* front-end obtained a logger delivers its record to every open sink of
\* that logger, whatever erase_logger or erase_all_logger did to the
\* registry in between; a statement delivers nothing only when its lookup
\* found no logger, which happens only once the logger has been erased.
C21_EraseKeepsInFlight ==
    \A t \in Threads :
        (thread[t].at = "idle" /\ thread[t].res.op = "log")
            => IF thread[t].res.val # Null
               THEN \A s \in Targets(thread[t].res.val) :
                        Printed(s, thread[t].rec)
               ELSE /\ erased # {}
                    /\ \A s \in SinkIds : ~Printed(s, thread[t].rec)

\* C21 witness: a thread's erase removed the logger while another thread's
\* front-end held it, the name is unregistered, and that front-end's
\* statement has returned with its record printed by both sinks.
C21_Witness ==
    \E t, u \in Threads :
        /\ t # u
        /\ thread[u].at = "idle"
        /\ thread[u].res.op \in {"erase_logger", "erase_all_logger"}
        /\ thread[u].res.raced
        /\ loggers_[PipeName] = Null
        /\ thread[t].at = "idle"
        /\ thread[t].res.op = "log"
        /\ thread[t].res.val = 1
        /\ Printed(1, thread[t].rec)
        /\ Printed(2, thread[t].rec)

\* C22: create_sink and add_sink attach before they return.  The call that
\* returns a sink's handle has appended the sink to the logger's adapter
\* list; no call removes or moves an adapter (the list only grows at its
\* end); and a push_record the logger runs afterwards calls every adapter
\* whose sink is open, at the position the sink was attached at.
C22_AttachBeforeReturn ==
    [][/\ ret'.op \in {"create_sink", "add_sink"}
           => logger'[ret'.arg].sink_adapters_
                  = Append(logger[ret'.arg].sink_adapters_, ret'.val)
       /\ \A l \in LoggerIds :
              logger[l].alive
                  => /\ Len(logger'[l].sink_adapters_)
                            >= Len(logger[l].sink_adapters_)
                     /\ \A k \in DOMAIN logger[l].sink_adapters_ :
                            logger'[l].sink_adapters_[k]
                                = logger[l].sink_adapters_[k]
       /\ (ret'.op = "log" /\ ret'.enabled)
              => LET ads == logger[ret'.val].sink_adapters_
                 IN  \A i \in DOMAIN ads :
                         (/\ SinkIsOpen(sink[ads[i]])
                          /\ \A h \in DOMAIN ads : h < i => ads[h] # ads[i])
                             => \E k \in DOMAIN ret'.calls :
                                    /\ ret'.calls[k].adapter = i
                                    /\ ret'.calls[k].sink = ads[i]
                                    /\ ret'.calls[k].accepted
                                           = SinkAccepts(sink[ads[i]],
                                                         ret'.rec.lvl)]_vars

\* C22 witness: a logging statement on a logger with two different sinks
\* attached has reached both, and both took the record.
C22_Witness ==
    /\ ret.op = "log"
    /\ ret.enabled
    /\ Len(logger[ret.val].sink_adapters_) = 2
    /\ logger[ret.val].sink_adapters_[1] # logger[ret.val].sink_adapters_[2]
    /\ Len(ret.calls) = 2
    /\ ret.calls[1].accepted
    /\ ret.calls[2].accepted
    /\ ret.calls[2].sink = logger[ret.val].sink_adapters_[2]

(***************************************************************************)
(* Destinations that fail.  One logger with console and file sinks; in a   *)
(* logging statement the file system may refuse the reopen of a rotation   *)
(* and the destination may refuse the bytes written (a full disk, a closed *)
(* standard stream).                                                       *)
(***************************************************************************)
MaxOpenOps == 6    \* calls in one behaviour

OpenOutcomes == [renameOk : {TRUE}, openOk : BOOLEAN, writeOk : BOOLEAN]

NextOpen ==
    \/ CreateLogger(PipeName)
    \/ \E l \in LoggerIds : CreateConsoleSink(l)
    \/ \E l \in LoggerIds, openOk \in BOOLEAN :
           CreateFileSink(l, PipeFileSize, 0, 0, openOk)
    \/ \E e \in OpenOutcomes :
           LogStmt(PipeName, FileLvl, PipeMsg, [s \in SinkIds |-> e])

SpecOpen == InitWith(MaxOpenOps) /\ [][NextOpen]_vars

\* the adapters a statement's push_record called
Called(r) == {r.calls[k].adapter : k \in DOMAIN r.calls}

\* this statement's write to sink s, open before it, met a destination that
\* had become unusable: the reopen of a rotation or the write itself failed
Unusable(s, r) ==
    \/ ~r.env[s].writeOk
    \/ /\ sink[s].kind = "file"
       /\ ~r.env[s].openOk
       /\ ~ULess(USum(Tellp(sink[s], live[s]), r.rec.m),
                 sink[s].max_file_size_)

\* the adapters of the statement's logger that come first for their sink
FirstFor(ads) ==
    {i \in DOMAIN ads : \A h \in DOMAIN ads : h < i => ads[h] # ads[i]}

\* C23 as stated: an adapter reports open exactly when its sink exists and
\* reports open, and the logger calls the open adapters only; once a sink's
\* destination has become unusable the sink, and with it the adapter,
\* reports not open.
C23_AdapterIsOpenAsStated ==
    [][(ret'.op = "log" /\ ret'.enabled)
           => LET ads == logger[ret'.val].sink_adapters_
                  W == [sink |-> sink, live |-> live, bak |-> bak,
                        console |-> console]
              IN  \A i \in FirstFor(ads) :
                      /\ AdapterIsOpen(W, ads[i]) <=> SinkIsOpen(sink[ads[i]])
                      /\ i \in Called(ret') <=> SinkIsOpen(sink[ads[i]])
                      /\ (i \in Called(ret') /\ Unusable(ads[i], ret'))
                             => ~SinkIsOpen(sink'[ads[i]])]_vars

\* C23: an adapter reports open exactly when its sink exists and reports
\* open, and the logger calls the open adapters only; a file sink reports
\* not open once an open or a write of its stream has failed, and a console
\* sink always reports open.
C23_AdapterIsOpen ==
    [][(ret'.op = "log" /\ ret'.enabled)
           => LET ads == logger[ret'.val].sink_adapters_
                  W == [sink |-> sink, live |-> live, bak |-> bak,
                        console |-> console]
              IN  \A i \in FirstFor(ads) :
                      /\ AdapterIsOpen(W, ads[i]) <=> SinkIsOpen(sink[ads[i]])
                      /\ i \in Called(ret') <=> SinkIsOpen(sink[ads[i]])
                      /\ (/\ i \in Called(ret')
                          /\ Unusable(ads[i], ret')
                          /\ sink[ads[i]].kind = "file")
                             => ~SinkIsOpen(sink'[ads[i]])
                      /\ sink[ads[i]].kind = "console"
                             => SinkIsOpen(sink'[ads[i]])]_vars

\* C23 witness: a file sink that had written a record lost its destination,
\* reports not open, and the logging statement just made passed it by
\* while calling the console sink attached after it.
C23_Witness ==
    /\ ret.op = "log"
    /\ ret.enabled
    /\ \E i, j \in DOMAIN logger[ret.val].sink_adapters_ :
           LET s == logger[ret.val].sink_adapters_[i]
               c == logger[ret.val].sink_adapters_[j]
           IN  /\ i < j
               /\ sink[s].kind = "file"
               /\ ~SinkIsOpen(sink[s])
               /\ live[s].data # <<>> \/ bak[s].data # <<>>
               /\ i \notin Called(ret)
               /\ sink[c].kind = "console"
               /\ j \in Called(ret)

(***************************************************************************)
(* The default layout.  A text is a sequence of characters; a record's     *)
(* time, level, thread id and source location print as one token each,     *)
(* its message character by character.  A sink formats a record with its   *)
(* verbose_ flag as it is at the call and writes the text.                 *)
(***************************************************************************)
MaxTextLen == 2      \* characters in a message
MaxLayoutOps == 2    \* calls in one behaviour

sep == " "
lf == "\n"
Chars == {"x", lf}
Messages == UNION {[1..k -> Chars] : k \in 0..MaxTextLen}

\* the delimiter is appended whatever the text ends with
end_with_always(strm, delimiter) == Append(strm, delimiter)

\* layout_constructor_base::end_with
end_with(strm, delimiter) ==
    IF strm = <<>>
    THEN Append(strm, delimiter)
    ELSE IF strm[Len(strm)] # delimiter
         THEN Append(strm, delimiter)
         ELSE strm

\* layout_constructor_base::record_prefix: format_time
record_prefix(strm, r) == Append(strm, "time")

\* layout_constructor<char>::record_suffix: [level] #id message
record_suffix(strm, r) ==
    end_with(strm \o <<sep, "[", "lvl", "]", sep, "#", "id", sep>> \o r.message,
             lf)

\* layout_constructor<char>::record_debug: (file, line, func)
record_debug(strm, r) ==
    strm \o <<sep, "(", "file", ",", " ", "line", ",", " ", "func", ")">>

\* the source location is printed whatever the sink's flag says
layout_construct_verbose(r, verbose) ==
    IF r.debug
    THEN record_suffix(record_debug(record_prefix(<<>>, r), r), r)
    ELSE record_suffix(record_prefix(<<>>, r), r)

\* layout_constructor_base::construct, the overloads for basic_record and
\* basic_record_d (r.debug)
layout_construct(r, verbose) ==
    IF r.debug
    THEN LET p == record_prefix(<<>>, r)
             d == IF verbose THEN record_debug(p, r) ELSE p
         IN  record_suffix(d, r)
    ELSE record_suffix(record_prefix(<<>>, r), r)

\* basic_sink_base::enable_verbose
EnableVerbose(s, enable) ==
    /\ sink[s].kind # "none"
    /\ left > 0
    /\ left' = left - 1
    /\ sink' = [sink EXCEPT ![s].verbose_ = enable]
    /\ ret' = [op |-> "enable_verbose", arg |-> s, val |-> enable]
    /\ UNCHANGED <<lvl_, loggers_, logger, live, bak, console, nrec, erased,
                   thread, mtx_, reg_mtx_, id, safe, acq, out>>

\* basic_sink::consume of a console sink: format with the sink's flag, then
\* write (floor check, writing prints the text)
ConsumeText(s, with_loc, m) ==
    LET r == [lvl |-> FileLvl, message |-> m, debug |-> with_loc]
        msg == layout_construct(r, sink[s].verbose_)
    IN  /\ sink[s].kind # "none"
        /\ left > 0
        /\ left' = left - 1
        /\ out' = IF sink[s].lvl_ > r.lvl
                  THEN out
                  ELSE [out EXCEPT ![s] = out[s] \o msg]
        /\ ret' = [op |-> "consume", arg |-> s, rec |-> r, text |-> msg,
                   verbose |-> sink[s].verbose_,
                   written |-> ~(sink[s].lvl_ > r.lvl)]
        /\ UNCHANGED <<lvl_, loggers_, logger, sink, live, bak, console, nrec,
                       erased, thread, mtx_, reg_mtx_, id, safe, acq>>

InitLayout ==
    /\ lvl_ = trace
    /\ loggers_ = [n \in Names |-> Null]
    /\ logger = [l \in LoggerIds |-> NoLogger]
    /\ sink = [s \in SinkIds |->
                  IF s = 1
                  THEN [kind |-> "console", lvl_ |-> trace, strm |-> "none",
                        max_file_size_ |-> 0, verbose_ |-> FALSE]
                  ELSE NoSink]
    /\ live = [s \in SinkIds |-> NoFile]
    /\ bak = [s \in SinkIds |-> NoFile]
    /\ console = <<>>
    /\ nrec = 0
    /\ erased = {}
    /\ left = MaxLayoutOps
    /\ ret = NoRet
    /\ thread = [t \in Threads |-> NoThread]
    /\ mtx_ = [s \in SinkIds |-> Null]
    /\ reg_mtx_ = Null
    /\ id = 0
    /\ safe = TRUE
    /\ acq = [s \in SinkIds |-> <<>>]
    /\ out = [s \in SinkIds |-> <<>>]

NextLayout ==
    \/ \E s \in SinkIds, enable \in BOOLEAN : EnableVerbose(s, enable)
    \/ \E s \in SinkIds, with_loc \in BOOLEAN, m \in Messages :
           ConsumeText(s, with_loc, m)

SpecLayout == InitLayout /\ [][NextLayout]_vars

\* the number of newlines in a text
RECURSIVE Newlines(_)
Newlines(s) ==
    IF s = <<>> THEN 0
    ELSE (IF Head(s) = lf THEN 1 ELSE 0) + Newlines(Tail(s))

\* C24: the text the default layout produces for a record is the record's
\* fields, the message, and one newline more exactly when the message does
\* not end with a newline (an empty message included); the layout adds no
\* newline anywhere else, and the sink writes this text as it is.
C24_TrailingNewline ==
    [][(ret'.op = "consume")
           => LET m == ret'.rec.message
                  text == ret'.text
                  ends == m # <<>> /\ m[Len(m)] = lf
                  added == IF ends THEN 0 ELSE 1
                  s == ret'.arg
              IN  /\ Len(text) >= Len(m) + added
                  /\ SubSeq(text, Len(text) - Len(m) - added + 1, Len(text))
                         = (IF ends THEN m ELSE Append(m, lf))
                  /\ text[Len(text)] = lf
                  /\ Newlines(text) = Newlines(m) + added
                  /\ ret'.written
                  /\ out'[s] = out[s] \o text]_vars

\* C24 witness: a message that ends with a newline was written with no
\* newline added, after an empty message on the same sink got its one.
C24_Witness ==
    /\ ret.op = "consume"
    /\ ret.rec.message = <<"x", lf>>
    /\ Newlines(ret.text) = 1
    /\ Newlines(out[ret.arg]) = 2
    /\ Len(out[ret.arg]) > Len(ret.text)
    /\ out[ret.arg][Len(out[ret.arg]) - Len(ret.text)] = lf
    /\ out[ret.arg][Len(out[ret.arg]) - Len(ret.text) - 1] = sep

\* the character c occurs in the text
Has(text, c) == \E k \in DOMAIN text : text[k] = c

\* the first place of c in the text
Pos(text, c) == CHOOSE k \in DOMAIN text :
                    text[k] = c /\ \A h \in 1..(k - 1) : text[h] # c

\* the characters at places p and q of the text are on one line
SameLine(text, p, q) ==
    \A k \in DOMAIN text :
        ((p <= k /\ k < q) \/ (q <= k /\ k < p)) => text[k] # lf

LocFields == {"file", "line", "func"}

MaxHookOps == 2    \* calls of write in one behaviour

HookSink == 1

Hooks == <<"before_write", "before_writing", "writing", "after_writing",
           "after_write">>

InScope == {"before_writing", "writing", "after_writing"}

NoWriter == [at |-> "idle", lvl |-> trace, ran |-> <<>>, res |-> "none"]

\* basic_sink::write entered: the floor check
HWrite(t, lvl) ==
    /\ thread[t].at = "idle"
    /\ left > 0
    /\ left' = left - 1
    /\ thread' = [thread EXCEPT ![t] =
                      IF sink[HookSink].lvl_ > lvl
                      THEN [at |-> "idle", lvl |-> lvl, ran |-> <<>>,
                            res |-> "filtered"]
                      ELSE [at |-> "before_write", lvl |-> lvl, ran |-> <<>>,
                            res |-> "none"]]
    /\ UNCHANGED <<lvl_, loggers_, logger, sink, live, bak, console, nrec,
                   erased, ret, mtx_, reg_mtx_, id, safe, acq, out>>

\* where write continues after the hook h returned
AfterHook(h) ==
    CASE h = "before_write" -> "lock"
      [] h = "before_writing" -> "writing"
      [] h = "writing" -> "after_writing"
      [] h = "after_writing" -> "unlock"
      [] h = "after_write" -> "idle"

\* one hook runs and returns or throws; writing prints the record
HHook(t, throws) ==
    LET h == thread[t].at
    IN  /\ h \in {Hooks[k] : k \in DOMAIN Hooks}
        /\ thread' = [thread EXCEPT
                          ![t].ran = Append(@, [hook |-> h,
                                                locked |-> mtx_[HookSink] = t]),
                          ![t].at = IF throws
                                    THEN (IF h \in InScope THEN "unwind"
                                          ELSE "idle")
                                    ELSE AfterHook(h),
                          ![t].res = IF throws /\ h \notin InScope
                                     THEN "threw"
                                     ELSE IF ~throws /\ h = "after_write"
                                     THEN "returned"
                                     ELSE @]
        /\ out' = IF h = "writing" /\ ~throws
                  THEN [out EXCEPT ![HookSink] = Append(@, t)]
                  ELSE out
        /\ UNCHANGED <<lvl_, loggers_, logger, sink, live, bak, console, nrec,
                       erased, left, ret, mtx_, reg_mtx_, id, safe, acq>>

\* std::lock_guard<mutexT> lock(mtx_)
HLock(t) ==
    /\ thread[t].at = "lock"
    /\ mtx_[HookSink] = Null
    /\ mtx_' = [mtx_ EXCEPT ![HookSink] = t]
    /\ thread' = [thread EXCEPT ![t].at = "before_writing"]
    /\ UNCHANGED <<lvl_, loggers_, logger, sink, live, bak, console, nrec,
                   erased, left, ret, reg_mtx_, id, safe, acq, out>>

\* a guard that unlocks at the closing brace only
HUnlockAtBrace(t) ==
    /\ thread[t].at \in {"unlock", "unwind"}
    /\ mtx_' = IF thread[t].at = "unlock"
               THEN [mtx_ EXCEPT ![HookSink] = Null]
               ELSE mtx_
    /\ thread' = [thread EXCEPT
                      ![t].at = IF thread[t].at = "unlock" THEN "after_write"
                                ELSE "idle",
                      ![t].res = IF thread[t].at = "unlock" THEN @
                                 ELSE "threw"]
    /\ UNCHANGED <<lvl_, loggers_, logger, sink, live, bak, console, nrec,
                   erased, left, ret, reg_mtx_, id, safe, acq, out>>

\* the lock_guard's destructor, at the end of the scope or when an
\* exception leaves it
HUnlock(t) ==
    /\ thread[t].at \in {"unlock", "unwind"}
    /\ mtx_' = [mtx_ EXCEPT ![HookSink] = Null]
    /\ thread' = [thread EXCEPT
                      ![t].at = IF thread[t].at = "unlock" THEN "after_write"
                                ELSE "idle",
                      ![t].res = IF thread[t].at = "unlock" THEN @
                                 ELSE "threw"]
    /\ UNCHANGED <<lvl_, loggers_, logger, sink, live, bak, console, nrec,
                   erased, left, ret, reg_mtx_, id, safe, acq, out>>

InitHooks ==
    /\ lvl_ = trace
    /\ loggers_ = [n \in Names |-> Null]
    /\ logger = [l \in LoggerIds |-> NoLogger]
    /\ sink = [s \in SinkIds |->
                  IF s = HookSink
                  THEN [kind |-> "console", lvl_ |-> FileLvl, strm |-> "none",
                        max_file_size_ |-> 0]
                  ELSE NoSink]
    /\ live = [s \in SinkIds |-> NoFile]
    /\ bak = [s \in SinkIds |-> NoFile]
    /\ console = <<>>
    /\ nrec = 0
    /\ erased = {}
    /\ left = MaxHookOps
    /\ ret = NoRet
    /\ thread = [t \in Threads |-> NoWriter]
    /\ mtx_ = [s \in SinkIds |-> Null]
    /\ reg_mtx_ = Null
    /\ id = 0
    /\ safe = TRUE
    /\ acq = [s \in SinkIds |-> <<>>]
    /\ out = [s \in SinkIds |-> <<>>]

NextHooks ==
    \/ \E t \in Threads, lvl \in {debug, FileLvl} : HWrite(t, lvl)
    \/ \E t \in Threads, throws \in BOOLEAN : HHook(t, throws)
    \/ \E t \in Threads : HLock(t)
    \/ \E t \in Threads : HUnlock(t)

SpecHooks == InitHooks /\ [][NextHooks]_vars

\* the hooks of the write in progress (or last finished) of thread t
Ran(t) == [k \in DOMAIN thread[t].ran |-> thread[t].ran[k].hook]

\* C26: the hooks of a write run in the order before_write, before_writing,
\* writing, after_writing, after_write, none twice and none left out before
\* a later one; a write that returns has run all five; the thread holds
\* the sink's mutex during before_writing, writing and after_writing and
\* not during before_write and after_write; and once write has returned or
\* an exception has left it, the thread does not hold the mutex.
C26_HookProtocol ==
    \A t \in Threads :
        /\ Len(Ran(t)) <= Len(Hooks)
        /\ Ran(t) = SubSeq(Hooks, 1, Len(Ran(t)))
        /\ \A k \in DOMAIN thread[t].ran :
               thread[t].ran[k].locked <=> thread[t].ran[k].hook \in InScope
        /\ (thread[t].res = "returned") => (Ran(t) = Hooks)
        /\ (thread[t].res = "filtered") => (Ran(t) = <<>>)
        /\ (mtx_[HookSink] = t)
               <=> thread[t].at \in InScope \cup {"unlock", "unwind"}
        /\ (thread[t].at = "idle") => (mtx_[HookSink] # t)

\* C26 witness: one thread returned from a write with all five hooks run
\* and its record printed, the other left its write by an exception thrown
\* by writing, and the mutex is free.
C26_Witness ==
    \E t, u \in Threads :
        /\ thread[t].res = "returned"
        /\ thread[t].at = "idle"
        /\ Ran(t) = Hooks
        /\ out[HookSink] = <<t>>
        /\ thread[u].res = "threw"
        /\ thread[u].at = "idle"
        /\ Ran(u) = SubSeq(Hooks, 1, 3)
        /\ mtx_[HookSink] = Null

(***************************************************************************)
(* The printf-style front-end.  sprintf_constructor::construct formats     *)
(* into the message string itself, resized to n characters, and tries      *)
(* again with n + BUFSIZ while the result does not fit.  One iteration of  *)
(* the loop is one step.  The formatted text of length L is the characters *)
(* 1..L; 0 is the terminating null and the filling of resize.  The narrow  *)
(* primitive returns the length the whole text needs, the wide primitive   *)
(* a negative number when the text does not fit.                           *)
(***************************************************************************)
BUFSIZ == 3          \* first buffer size (scaled down)
MaxFmtLen == 6       \* longest formatted text
MaxPrintfOps == 2    \* statements in one behaviour

Text(L) == [i \in 1..L |-> i]

\* std::basic_string::resize(n)
resize(s, n) == [i \in 1..n |-> IF i <= Len(s) THEN s[i] ELSE 0]

\* the characters of txt and a null stored at the start of the buffer s
Put(s, txt) ==
    [i \in 1..Len(s) |-> IF i <= Len(txt) THEN txt[i]
                         ELSE IF i = Len(txt) + 1 THEN 0
                         ELSE s[i]]

\* std::snprintf(s, n, fmt, args...): at most n - 1 characters and a null
\* are stored; the result is the length of the whole text, or negative
snprintf(s, n, L, fail) ==
    IF fail THEN [r |-> -1, s |-> s]
    ELSE [r |-> L,
          s |-> IF n = 0 THEN s
                ELSE Put(s, Text(IF L < n - 1 THEN L ELSE n - 1))]

\* std::swprintf(s, n, fmt, args...): the result is negative also when the
\* text and its null need more than n characters
swprintf(s, n, L, fail) ==
    IF fail \/ L >= n THEN [r |-> -1, s |-> s]
    ELSE [r |-> L, s |-> Put(s, Text(L))]

\* the statement's front-end object is constructed (logger looked up with
\* the record's level, record_ built) and operator()(fmt, args...) enters
\* the loop of construct
PrintfCall(ln, lvl, L, fail, wide) ==
    /\ IF ret.op = "printf" THEN ret.at = "flushed" ELSE TRUE
    /\ left > 0
    /\ left' = left - 1
    /\ nrec' = nrec + 1
    /\ ret' = [op |-> "printf", at |-> "loop", name |-> ln, lvl |-> lvl,
               val |-> RegistryGetLogger(loggers_, lvl_, ln, lvl),
               call |-> nrec + 1, L |-> L, fail |-> fail, wide |-> wide,
               n |-> BUFSIZ, s |-> <<>>, r |-> 0, iters |-> 0,
               threw |-> FALSE, calls |-> <<>>]
    /\ UNCHANGED <<lvl_, loggers_, logger, sink, live, bak, console, erased,
                   thread, mtx_, reg_mtx_, id, safe, acq, out>>

\* one iteration of the loop of sprintf_constructor::construct
PrintfIter ==
    /\ ret.op = "printf"
    /\ ret.at = "loop"
    /\ LET s1 == resize(ret.s, ret.n)
           n == ret.n - 1
           p == IF ret.wide THEN swprintf(s1, n, ret.L, ret.fail)
                ELSE snprintf(s1, n, ret.L, ret.fail)
       IN  ret' = IF p.r < 0
                  THEN [ret EXCEPT !.s = <<>>, !.r = p.r, !.at = "formatted",
                                   !.iters = @ + 1]
                  ELSE IF p.r < n
                  THEN [ret EXCEPT !.s = resize(p.s, p.r), !.r = p.r,
                                   !.at = "formatted", !.iters = @ + 1]
                  ELSE [ret EXCEPT !.s = p.s, !.r = p.r, !.n = n + BUFSIZ,
                                   !.iters = @ + 1]
    /\ UNCHANGED <<lvl_, loggers_, logger, sink, live, bak, console, nrec,
                   erased, left, thread, mtx_, reg_mtx_, id, safe, acq, out>>

\* a flush that drops a record whose message is empty
PrintfFlushNonEmpty ==
    /\ ret.op = "printf"
    /\ ret.at = "formatted"
    /\ LET rec == [id |-> ret.call, lvl |-> ret.lvl, m |-> Len(ret.s)]
           W == [sink |-> sink, live |-> live, bak |-> bak,
                 console |-> console]
           r == IF ret.val # Null /\ LoggerConsume(logger[ret.val], ret.lvl)
                   /\ ret.s # <<>>
                THEN PushRecord(W, logger[ret.val], rec, EnvOk)
                ELSE [W |-> W, calls |-> <<>>, threw |-> FALSE]
       IN  /\ sink' = r.W.sink
           /\ live' = r.W.live
           /\ bak' = r.W.bak
           /\ console' = r.W.console
           /\ ret' = [ret EXCEPT !.at = "flushed", !.threw = r.threw,
                                 !.calls = r.calls]
    /\ UNCHANGED <<lvl_, loggers_, logger, nrec, erased, left, thread, mtx_,
                   reg_mtx_, id, safe, acq, out>>

\* the statement's loop body has returned: basic_dlprintf::flush pushes the
\* record if the front-end holds a logger
PrintfFlush ==
    /\ ret.op = "printf"
    /\ ret.at = "formatted"
    /\ LET rec == [id |-> ret.call, lvl |-> ret.lvl, m |-> Len(ret.s)]
           W == [sink |-> sink, live |-> live, bak |-> bak,
                 console |-> console]
           r == IF ret.val # Null /\ LoggerConsume(logger[ret.val], ret.lvl)
                THEN PushRecord(W, logger[ret.val], rec, EnvOk)
                ELSE [W |-> W, calls |-> <<>>, threw |-> FALSE]
       IN  /\ sink' = r.W.sink
           /\ live' = r.W.live
           /\ bak' = r.W.bak
           /\ console' = r.W.console
           /\ ret' = [ret EXCEPT !.at = "flushed", !.threw = r.threw,
                                 !.calls = r.calls]
    /\ UNCHANGED <<lvl_, loggers_, logger, nrec, erased, left, thread, mtx_,
                   reg_mtx_, id, safe, acq, out>>

InitPrintf ==
    /\ lvl_ = trace
    /\ loggers_ = [n \in Names |-> IF n = PipeName THEN 1 ELSE Null]
    /\ logger = [l \in LoggerIds |->
                    IF l = 1
                    THEN [alive |-> TRUE, name |-> PipeName, lvl_ |-> trace,
                          sink_adapters_ |-> <<1>>]
                    ELSE NoLogger]
    /\ sink = [s \in SinkIds |->
                  IF s = 1
                  THEN [kind |-> "console", lvl_ |-> trace, strm |-> "none",
                        max_file_size_ |-> 0]
                  ELSE NoSink]
    /\ live = [s \in SinkIds |-> NoFile]
    /\ bak = [s \in SinkIds |-> NoFile]
    /\ console = <<>>
    /\ nrec = 0
    /\ erased = {}
    /\ left = MaxPrintfOps
    /\ ret = NoRet
    /\ thread = [t \in Threads |-> NoThread]
    /\ mtx_ = [s \in SinkIds |-> Null]
    /\ reg_mtx_ = Null
    /\ id = 0
    /\ safe = TRUE
    /\ acq = [s \in SinkIds |-> <<>>]
    /\ out = [s \in SinkIds |-> <<>>]

NextPrintf ==
    \/ \E L \in 0..MaxFmtLen, fail \in BOOLEAN, wide \in BOOLEAN :
           PrintfCall(PipeName, FileLvl, L, fail, wide)
    \/ PrintfIter
    \/ PrintfFlush

SpecPrintf == InitPrintf /\ [][NextPrintf]_vars

\* a thread that has entered the loop keeps running
SpecPrintfFair == SpecPrintf /\ WF_vars(PrintfIter)

\* C27 as stated: for every formatted length L, the construct loop of a
\* statement ends, and when the formatting does not fail it leaves the
\* message equal to the whole formatted text, in the narrow and in the wide
\* variant.
C27_AdaptiveBufferAsStated ==
    /\ [](  (ret.op = "printf" /\ ret.at # "loop" /\ ~ret.fail)
         => (ret.s = Text(ret.L)))
    /\ \A c \in 1..MaxPrintfOps :
           (ret.op = "printf" /\ ret.call = c /\ ret.at = "loop")
               ~> (ret.op = "printf" /\ ret.call = c /\ ret.at # "loop")

\* C28: when the formatting primitive has reported a negative result the
\* message is empty, nothing is thrown, and the flush that follows pushes
\* the record, which every sink of the logger writes with its empty
\* message.
C28_FormattingFailure ==
    (ret.op = "printf" /\ ret.at # "loop" /\ ret.r < 0)
        => /\ ret.s = <<>>
           /\ ~ret.threw
           /\ (ret.at = "flushed") =>
                  /\ Len(ret.calls) = Len(logger[ret.val].sink_adapters_)
                  /\ \A k \in DOMAIN ret.calls :
                         /\ ret.calls[k].accepted
                         /\ ret.calls[k].rec.m = 0
                         /\ Written(sink, live, console, ret.calls[k].sink,
                                    [id |-> ret.call, lvl |-> ret.lvl,
                                     m |-> 0])

\* C28 witness: a narrow statement whose primitive failed has been flushed
\* and the console holds its record with the empty message.
C28_Witness ==
    /\ ret.op = "printf"
    /\ ret.at = "flushed"
    /\ ~ret.wide
    /\ ret.fail
    /\ ret.r < 0
    /\ ret.s = <<>>
    /\ \E i \in DOMAIN console :
           console[i].rec = [id |-> ret.call, lvl |-> ret.lvl, m |-> 0]

(***************************************************************************)
(* Container printing.  The output stream is a sequence of tokens: a       *)
(* delimiter, or an element of the container (the element at place i of    *)
(* the iteration is Elem(i)).                                              *)
(***************************************************************************)
MaxSeqLen == 102    \* elements in a container

max_print_count == 100

Tok(c) == [k |-> c, v |-> 0]
Elem(i) == [k |-> "elem", v |-> i]

ellipsis == Tok("...")
space == Tok(" ")
comma == Tok(",")

\* operator<<(out, Container const& seq) calls print_sequence for the n
\* elements of a container with key_type (is_map) or without: the opening
\* bracket is written and the loop starts with i = 0
PrintSeqCall(is_map, n) ==
    /\ IF ret.op = "print_sequence" THEN ret.at = "done" ELSE TRUE
    /\ ret' = [op |-> "print_sequence", at |-> "loop", is_map |-> is_map,
               n |-> n, i |-> 0,
               out |-> <<Tok(IF is_map THEN "{" ELSE "[")>>]
    /\ UNCHANGED <<lvl_, loggers_, logger, sink, live, bak, console, nrec,
                   erased, left, thread, mtx_, reg_mtx_, id, safe, acq, out>>

\* a loop that prints every element
PrintSeqIterAll ==
    /\ ret.op = "print_sequence"
    /\ ret.at = "loop"
    /\ ret.i # ret.n
    /\ ret' = [ret EXCEPT
                   !.out = (IF ret.i > 0 THEN @ \o <<comma, space>> ELSE @)
                               \o <<Elem(ret.i + 1)>>,
                   !.i = @ + 1]
    /\ UNCHANGED <<lvl_, loggers_, logger, sink, live, bak, console, nrec,
                   erased, left, thread, mtx_, reg_mtx_, id, safe, acq, out>>

\* one iteration of the for loop: i elements are printed and b is at place
\* i + 1 of the n elements
PrintSeqIter ==
    /\ ret.op = "print_sequence"
    /\ ret.at = "loop"
    /\ ret.i # ret.n /\ ret.i < max_print_count
    /\ ret' = [ret EXCEPT
                   !.out = (IF ret.i > 0 THEN @ \o <<comma, space>> ELSE @)
                               \o <<Elem(ret.i + 1)>>,
                   !.i = @ + 1]
    /\ UNCHANGED <<lvl_, loggers_, logger, sink, live, bak, console, nrec,
                   erased, left, thread, mtx_, reg_mtx_, id, safe, acq, out>>

\* the loop has ended: the ellipsis if b != e, then the closing bracket
PrintSeqClose ==
    /\ ret.op = "print_sequence"
    /\ ret.at = "loop"
    /\ ~(ret.i # ret.n /\ ret.i < max_print_count)
    /\ ret' = [ret EXCEPT
                   !.out = (IF ret.i # ret.n THEN @ \o <<space, ellipsis>>
                            ELSE @)
                               \o <<Tok(IF ret.is_map THEN "}" ELSE "]")>>,
                   !.at = "done"]
    /\ UNCHANGED <<lvl_, loggers_, logger, sink, live, bak, console, nrec,
                   erased, left, thread, mtx_, reg_mtx_, id, safe, acq, out>>

NextSeq ==
    \/ \E is_map \in BOOLEAN, n \in 0..MaxSeqLen : PrintSeqCall(is_map, n)
    \/ PrintSeqIter
    \/ PrintSeqClose

SpecSeq == InitWith(0) /\ [][NextSeq]_vars

\* C29: the output for a container of n elements holds all n elements and
\* no ellipsis when n <= 100, and exactly the first 100 elements followed
\* by an ellipsis when n > 100; it opens with [ and closes with ] ({ and }
\* for a container with keys), the ellipsis comes right before the closing
\* bracket, and between two elements stands a comma and a space, nothing
\* else.
C29_PrintCap ==
    (ret.op = "print_sequence" /\ ret.at = "done")
        => LET o == ret.out
               n == ret.n
               k == IF n <= 100 THEN n ELSE 100
               body == Len(o) - (IF n > 100 THEN 3 ELSE 1)
           IN  /\ SelectSeq(o, LAMBDA x : x.k = "elem")
                      = [i \in 1..k |-> Elem(i)]
               /\ Has(o, ellipsis) <=> n > 100
               /\ o[1] = Tok(IF ret.is_map THEN "{" ELSE "[")
               /\ o[Len(o)] = Tok(IF ret.is_map THEN "}" ELSE "]")
               /\ (n > 100) => (o[Len(o) - 1] = ellipsis
                                /\ o[Len(o) - 2] = space
                                /\ o[Len(o) - 3] = Elem(100))
               /\ body = (IF k = 0 THEN 1 ELSE 3 * k - 1)
               /\ \A j \in 2..body :
                      CASE j % 3 = 2 -> o[j] = Elem((j + 1) \div 3)
                        [] j % 3 = 0 -> o[j] = comma
                        [] j % 3 = 1 -> o[j] = space

\* C29 witness: a container of 101 elements was printed: the output holds
\* element 100, not element 101, and the ellipsis before the bracket.
C29_Witness ==
    /\ ret.op = "print_sequence"
    /\ ret.at = "done"
    /\ ret.n = 101
    /\ ~ret.is_map
    /\ Has(ret.out, Elem(100))
    /\ ~Has(ret.out, Elem(101))
    /\ ret.out[Len(ret.out) - 1] = ellipsis
    /\ ret.out[Len(ret.out)] = Tok("]")

(***************************************************************************)
(* Records of both character widths.  A record carries the time and the    *)
(* thread id sampled when it was built; a text is its character width and  *)
(* its content.  A thread builds a record and a thread pushes it, at a     *)
(* later reading of the clock, to a logger with a narrow and a wide sink.  *)
(***************************************************************************)
MaxTime == 1        \* readings of the clock: 0..MaxTime
MaxAdaptOps == 3    \* calls in one behaviour

Times == 0..MaxTime
Widths == {"char", "wchar_t"}

\* the character type of a sink
SinkWidth(sk) == IF sk.kind = "wconsole" THEN "wchar_t" ELSE "char"

\* string_traits<>::convert(to, from): the content in the other width, or
\* an empty text when the facet reports an error
convert(w, from, ok) == [w |-> w, txt |-> IF ok THEN from.txt ELSE ""]

\* basic_record(level, message) / basic_record_d(level, message, file, line,
\* function): the time and the thread id are sampled by the constructor
MakeRecord(t, now, lvl, w, dbg) ==
    /\ left > 0
    /\ left' = left - 1
    /\ thread' = [thread EXCEPT ![t].rec =
                      [tv |-> now, lvl |-> lvl, id |-> thread[t].thrd_id,
                       message |-> [w |-> w, txt |-> "m"], dbg |-> dbg,
                       file |-> [w |-> w, txt |-> IF dbg THEN "f" ELSE ""],
                       line |-> IF dbg THEN 1 ELSE 0,
                       func |-> [w |-> w, txt |-> IF dbg THEN "g" ELSE ""]]]
    /\ ret' = [op |-> "record", by |-> t]
    /\ UNCHANGED <<lvl_, loggers_, logger, sink, live, bak, console, nrec,
                   erased, mtx_, reg_mtx_, id, safe, acq, out>>

\* an adapter that builds the converted record with the constructor that
\* samples the clock and the thread id
AdaptResample(w, r, ok, now, tid) ==
    IF r.message.w = w THEN r
    ELSE [tv |-> now, lvl |-> r.lvl, id |-> tid,
          message |-> convert(w, r.message, ok), dbg |-> r.dbg,
          file |-> IF r.dbg THEN convert(w, r.file, ok)
                   ELSE [r.file EXCEPT !.w = w],
          line |-> r.line,
          func |-> IF r.dbg THEN convert(w, r.func, ok)
                   ELSE [r.func EXCEPT !.w = w]]

\* basic_sink_adapter::consume, the four overloads: the record its sink is
\* handed, by an adapter of width w, in thread tid at clock reading now
Adapt(w, r, ok, now, tid) ==
    IF r.message.w = w THEN r
    ELSE [tv |-> r.tv, lvl |-> r.lvl, id |-> r.id,
          message |-> convert(w, r.message, ok), dbg |-> r.dbg,
          file |-> IF r.dbg THEN convert(w, r.file, ok)
                   ELSE [r.file EXCEPT !.w = w],
          line |-> r.line,
          func |-> IF r.dbg THEN convert(w, r.func, ok)
                   ELSE [r.func EXCEPT !.w = w]]

\* logger::push_record from adapter i on; cvt tells how the conversions of
\* this push go ("ok", "error", or "throw": no usable locale)
RECURSIVE AdaptLoop(_, _, _, _, _, _, _)
AdaptLoop(O, adapters, i, r, cvt, now, tid) ==
    IF i > Len(adapters) THEN [out |-> O, threw |-> FALSE]
    ELSE LET s == adapters[i]
             w == SinkWidth(sink[s])
         IN  IF ~SinkIsOpen(sink[s])
             THEN AdaptLoop(O, adapters, i + 1, r, cvt, now, tid)
             ELSE IF r.message.w # w /\ cvt = "throw"
             THEN [out |-> O, threw |-> TRUE]
             ELSE AdaptLoop([O EXCEPT ![s] =
                                 Append(@, Adapt(w, r, cvt = "ok", now,
                                                 tid))],
                            adapters, i + 1, r, cvt, now, tid)

\* thread u pushes the record thread t built to logger l
PushRec(u, t, l, now, cvt) ==
    /\ left > 0
    /\ left' = left - 1
    /\ "tv" \in DOMAIN thread[t].rec
    /\ now >= thread[t].rec.tv
    /\ logger[l].alive
    /\ LET r == AdaptLoop(out, logger[l].sink_adapters_, 1, thread[t].rec,
                          cvt, now, thread[u].thrd_id)
       IN  /\ out' = r.out
           /\ ret' = [op |-> "push_record", by |-> u, rec |-> thread[t].rec,
                      now |-> now, val |-> l, threw |-> r.threw]
    /\ UNCHANGED <<lvl_, loggers_, logger, sink, live, bak, console, nrec,
                   erased, thread, mtx_, reg_mtx_, id, safe, acq>>

InitAdapt ==
    /\ lvl_ = trace
    /\ loggers_ = [n \in Names |-> IF n = PipeName THEN 1 ELSE Null]
    /\ logger = [l \in LoggerIds |->
                    IF l = 1
                    THEN [alive |-> TRUE, name |-> PipeName, lvl_ |-> trace,
                          sink_adapters_ |-> <<1, 2>>]
                    ELSE NoLogger]
    /\ sink = [s \in SinkIds |->
                  IF s = 1
                  THEN [kind |-> "console", lvl_ |-> trace, strm |-> "none",
                        max_file_size_ |-> 0]
                  ELSE IF s = 2
                  THEN [kind |-> "wconsole", lvl_ |-> trace, strm |-> "none",
                        max_file_size_ |-> 0]
                  ELSE NoSink]
    /\ live = [s \in SinkIds |-> NoFile]
    /\ bak = [s \in SinkIds |-> NoFile]
    /\ console = <<>>
    /\ nrec = 0
    /\ erased = {}
    /\ left = MaxAdaptOps
    /\ ret = NoRet
    /\ thread = [t \in Threads |-> [NoThread EXCEPT !.thrd_id = t]]
    /\ mtx_ = [s \in SinkIds |-> Null]
    /\ reg_mtx_ = Null
    /\ id = MaxThreads
    /\ safe = TRUE
    /\ acq = [s \in SinkIds |-> <<>>]
    /\ out = [s \in SinkIds |-> <<>>]

NextAdapt ==
    \/ \E t \in Threads, now \in Times, w \in Widths, dbg \in BOOLEAN :
           MakeRecord(t, now, FileLvl, w, dbg)
    \/ \E u, t \in Threads, now \in Times,
          cvt \in {"ok", "error", "throw"} :
           PushRec(u, t, 1, now, cvt)

SpecAdapt == InitAdapt /\ [][NextAdapt]_vars

\* C30: whatever a sink is handed by a push is the pushed record in the
\* sink's width: time, level, thread id, and for a debug record the line
\* number are those of the pushed record, also when another thread pushes
\* it at a later time; message, file and function differ from the pushed
\* ones only by conversion.
C30_WidthAdaptation ==
    [][(ret'.op = "push_record")
           => \A s \in SinkIds :
                  \/ out'[s] = out[s]
                  \/ LET r == ret'.rec
                         to == out'[s][Len(out'[s])]
                     IN  /\ out'[s] = Append(out[s], to)
                         /\ to.tv = r.tv
                         /\ to.lvl = r.lvl
                         /\ to.id = r.id
                         /\ to.dbg = r.dbg
                         /\ to.line = r.line
                         /\ to.message.w = SinkWidth(sink[s])
                         /\ to.message.txt \in {r.message.txt, ""}
                         /\ to.file.txt \in {r.file.txt, ""}
                         /\ to.func.txt \in {r.func.txt, ""}
                         /\ (r.message.w = SinkWidth(sink[s])) => (to = r)]_vars

\* C30 witness: a wide sink was handed the converted form of a narrow debug
\* record that one thread built and another thread pushed at a later time;
\* it carries the builder's time and thread id.
C30_Witness ==
    /\ ret.op = "push_record"
    /\ ret.rec.message.w = "char"
    /\ ret.rec.dbg
    /\ ret.now > ret.rec.tv
    /\ thread[ret.by].thrd_id # ret.rec.id
    /\ \E s \in SinkIds :
           /\ sink[s].kind = "wconsole"
           /\ out[s] # <<>>
           /\ LET to == out[s][Len(out[s])]
              IN  /\ to.message = [w |-> "wchar_t", txt |-> "m"]
                  /\ to.file = [w |-> "wchar_t", txt |-> "f"]
                  /\ to.tv = ret.rec.tv
                  /\ to.id = ret.rec.id
                  /\ to.line = ret.rec.line

(***************************************************************************)
(* The endpage layout.  The sink's formatter keeps a cache between         *)
(* records: empty at the start of an output line, <<ff>> while a line is   *)
(* being continued.  basic_sink::consume formats the record, which reads   *)
(* and writes the cache, and then calls write, which checks the floor.     *)
(***************************************************************************)
MaxEndpageOps == 3    \* calls in one behaviour

ff == "\f"
EpChars == {"x", ff}
EpMessages == UNION {[1..k -> EpChars] : k \in 0..MaxTextLen}

\* endpage_constructor<char>::record_prefix
ep_record_prefix(strm, r, cache) ==
    IF cache = <<>> THEN Append(strm, "time") ELSE strm

\* endpage_constructor<char>::record_suffix: the text and the new cache
ep_record_suffix(strm, r, cache) ==
    LET head == IF cache = <<>>
                THEN strm \o <<sep, "[", "lvl", "]", sep, "#", "id", sep>>
                ELSE strm
        m == r.message
    IN  IF m # <<>> /\ m[Len(m)] = ff
        THEN [strm |-> head \o SubSeq(m, 1, Len(m) - 1) \o <<lf>>,
              cache |-> <<>>]
        ELSE [strm |-> head \o m,
              cache |-> IF cache = <<>> THEN <<ff>> ELSE cache]

\* layout_constructor_base::construct for basic_record, with
\* endpage_constructor as the derived class
endpage_construct(r, cache) ==
    ep_record_suffix(ep_record_prefix(<<>>, r, cache), r, cache)

\* basic_sink_base::set_level on the sink with the endpage layout
EpSetLevel(s, lvl) ==
    /\ sink[s].kind # "none"
    /\ left > 0
    /\ left' = left - 1
    /\ sink' = [sink EXCEPT ![s].lvl_ = lvl]
    /\ ret' = [op |-> "sink_set_level", arg |-> s, lvl |-> lvl]
    /\ UNCHANGED <<lvl_, loggers_, logger, live, bak, console, nrec, erased,
                   thread, mtx_, reg_mtx_, id, safe, acq, out>>

\* a consume that checks the floor before it formats
EpConsumeFloorFirst(s, lvl, m) ==
    LET r == [lvl |-> lvl, message |-> m]
        f == endpage_construct(r, sink[s].cache_)
        rejected == sink[s].lvl_ > lvl
    IN  /\ sink[s].kind # "none"
        /\ left > 0
        /\ left' = left - 1
        /\ sink' = IF rejected THEN sink
                   ELSE [sink EXCEPT ![s].cache_ = f.cache]
        /\ out' = IF rejected THEN out
                  ELSE [out EXCEPT ![s] = out[s] \o f.strm]
        /\ ret' = [op |-> "consume", arg |-> s, rec |-> r, text |-> f.strm,
                   written |-> ~rejected]
        /\ UNCHANGED <<lvl_, loggers_, logger, live, bak, console, nrec,
                       erased, thread, mtx_, reg_mtx_, id, safe, acq>>

\* basic_sink::consume: fmt_.format(r, verbose) updates the formatter's
\* cache, then write returns at once for a record below the floor
EpConsume(s, lvl, m) ==
    LET r == [lvl |-> lvl, message |-> m]
        f == endpage_construct(r, sink[s].cache_)
        rejected == sink[s].lvl_ > lvl
    IN  /\ sink[s].kind # "none"
        /\ left > 0
        /\ left' = left - 1
        /\ sink' = [sink EXCEPT ![s].cache_ = f.cache]
        /\ out' = IF rejected THEN out
                  ELSE [out EXCEPT ![s] = out[s] \o f.strm]
        /\ ret' = [op |-> "consume", arg |-> s, rec |-> r, text |-> f.strm,
                   written |-> ~rejected]
        /\ UNCHANGED <<lvl_, loggers_, logger, live, bak, console, nrec,
                       erased, thread, mtx_, reg_mtx_, id, safe, acq>>

InitEndpage ==
    /\ lvl_ = trace
    /\ loggers_ = [n \in Names |-> Null]
    /\ logger = [l \in LoggerIds |-> NoLogger]
    /\ sink = [s \in SinkIds |->
                  IF s = 1
                  THEN [kind |-> "console", lvl_ |-> trace, strm |-> "none",
                        max_file_size_ |-> 0, verbose_ |-> FALSE,
                        cache_ |-> <<>>]
                  ELSE NoSink]
    /\ live = [s \in SinkIds |-> NoFile]
    /\ bak = [s \in SinkIds |-> NoFile]
    /\ console = <<>>
    /\ nrec = 0
    /\ erased = {}
    /\ left = MaxEndpageOps
    /\ ret = NoRet
    /\ thread = [t \in Threads |-> NoThread]
    /\ mtx_ = [s \in SinkIds |-> Null]
    /\ reg_mtx_ = Null
    /\ id = 0
    /\ safe = TRUE
    /\ acq = [s \in SinkIds |-> <<>>]
    /\ out = [s \in SinkIds |-> <<>>]

NextEndpage ==
    \/ \E s \in SinkIds, lvl \in {trace, FileLvl} : EpSetLevel(s, lvl)
    \/ \E s \in SinkIds, lvl \in {debug, FileLvl}, m \in EpMessages :
           EpConsume(s, lvl, m)

SpecEndpage == InitEndpage /\ [][NextEndpage]_vars

\* the output of a sink stands in the middle of a line
InLine(o) == o # <<>> /\ o[Len(o)] # lf

\* C31 as stated: what a sink with the endpage layout writes for a record
\* is the time/level/thread-id prefix exactly when the record starts an
\* output line, then the message without its final form feed, then a line
\* break exactly when the message ends with a form feed.
C31_EndpageLinesAsStated ==
    [][(ret'.op = "consume" /\ ret'.written)
           => LET s == ret'.arg
                  m == ret'.rec.message
                  ends == m # <<>> /\ m[Len(m)] = ff
                  prefix == <<"time", sep, "[", "lvl", "]", sep, "#", "id",
                              sep>>
              IN  out'[s] = out[s]
                      \o (IF InLine(out[s]) THEN <<>> ELSE prefix)
                      \o (IF ends THEN SubSeq(m, 1, Len(m) - 1) ELSE m)
                      \o (IF ends THEN <<lf>> ELSE <<>>)]_vars

\* C32 as stated: a record rejected by the sink's floor leaves the sink as
\* it was: nothing is written and the sink's settings and formatter cache
\* are those of before.
C32_RejectedLeavesSinkAsStated ==
    [][(ret'.op = "consume" /\ ~ret'.written)
           => (out' = out /\ sink' = sink)]_vars

(***************************************************************************)
(* Attaching sinks.  A sink is built by the caller (std::make_shared) or   *)
(* by create_sink, carries its own floor and verbose flag, and is attached *)
(* to a logger through an adapter; the logger has a floor of its own.      *)
(***************************************************************************)
MaxAttachOps == 6    \* calls in one behaviour

AttachLevels == {trace, FileLvl, fatal}

\* the settings a sink is constructed with (basic_sink_base's member
\* initialisers)
DefaultSink == [kind |-> "console", lvl_ |-> trace, strm |-> "none",
                max_file_size_ |-> 0, verbose_ |-> FALSE]

\* std::make_shared<sink::console_sink>() by the caller: a sink not yet
\* attached
NewSink ==
    /\ Step
    /\ \E s \in SinkIds : sink[s].kind = "none"
    /\ sink' = [sink EXCEPT ![FreshSink] = DefaultSink]
    /\ ret' = [NoRet EXCEPT !.op = "new_sink", !.val = FreshSink]
    /\ UNCHANGED <<lvl_, loggers_, logger, live, bak, console, nrec, erased>>

\* logger::create_sink<sinkT>(args): make_shared, then add_sink
CreateSink(l) ==
    /\ Step
    /\ logger[l].alive
    /\ \E s \in SinkIds : sink[s].kind = "none"
    /\ Len(logger[l].sink_adapters_) < MaxAdapters
    /\ sink' = [sink EXCEPT ![FreshSink] = DefaultSink]
    /\ logger' = [logger EXCEPT
                      ![l].sink_adapters_ =
                          Append(logger[l].sink_adapters_, FreshSink)]
    /\ ret' = [NoRet EXCEPT !.op = "create_sink", !.arg = l, !.val = FreshSink]
    /\ UNCHANGED <<lvl_, loggers_, live, bak, console, nrec, erased>>

NextAttach ==
    \/ CreateLogger(PipeName)
    \/ NewSink
    \/ \E l \in LoggerIds : CreateSink(l)
    \/ \E l \in LoggerIds, s \in SinkIds : AddSink(l, s)
    \/ \E l \in LoggerIds, lvl \in AttachLevels : LoggerSetLevel(l, lvl)
    \/ \E s \in SinkIds, lvl \in AttachLevels : SinkSetLevel(s, lvl)
    \/ \E s \in SinkIds, enable \in BOOLEAN : EnableVerbose(s, enable)

SpecAttach == InitWith(MaxAttachOps) /\ [][NextAttach]_vars

MaxOrderOps == 3    \* statements started in one behaviour

\* a logging statement of thread t starts: the front-end is constructed
TLogStmt(t, ln, lvl) ==
    /\ left > 0
    /\ left' = left - 1
    /\ thread[t].at = "idle"
    /\ thread' = [thread EXCEPT ![t].at = "lookup_lock", ![t].ln = ln,
                                ![t].rec = [id |-> nrec + 1, lvl |-> lvl,
                                            m |-> PipeMsg],
                                ![t].logger_ = Null, ![t].i = 1,
                                ![t].res = [NoThread.res EXCEPT !.op = "busy"]]
    /\ nrec' = nrec + 1
    /\ ret' = [op |-> "log", by |-> Append(ret.by, t)]
    /\ UNCHANGED <<lvl_, loggers_, logger, sink, live, bak, console, erased,
                   mtx_, reg_mtx_, id, safe, acq, out>>

\* The program when the threads start logging: the main thread has
\* registered logger PipeName with two console sinks, every thread has its
\* thread id from an earlier statement, and the build is the default one
\* (the registry's lock is null_mutex).
InitOrder ==
    /\ lvl_ = trace
    /\ loggers_ = [n \in Names |-> IF n = PipeName THEN 1 ELSE Null]
    /\ logger = [l \in LoggerIds |->
                    IF l = 1
                    THEN [alive |-> TRUE, name |-> PipeName, lvl_ |-> trace,
                          sink_adapters_ |-> <<1, 2>>]
                    ELSE NoLogger]
    /\ sink = [s \in SinkIds |->
                  IF s <= 2
                  THEN [kind |-> "console",
                        lvl_ |-> IF s = 2 THEN FileLvl ELSE trace,
                        strm |-> "none", max_file_size_ |-> 0]
                  ELSE NoSink]
    /\ live = [s \in SinkIds |-> NoFile]
    /\ bak = [s \in SinkIds |-> NoFile]
    /\ console = <<>>
    /\ nrec = 0
    /\ erased = {}
    /\ left = MaxOrderOps
    /\ ret = [op |-> "none", by |-> <<>>]
    /\ thread = [t \in Threads |-> [NoThread EXCEPT !.thrd_id = t]]
    /\ mtx_ = [s \in SinkIds |-> Null]
    /\ reg_mtx_ = Null
    /\ id = MaxThreads
    /\ safe = FALSE
    /\ acq = [s \in SinkIds |-> <<>>]
    /\ out = [s \in SinkIds |-> <<>>]

NextOrder ==
    \/ \E t \in Threads, lvl \in {debug, FileLvl} : TLogStmt(t, PipeName, lvl)
    \/ \E t \in Threads : TLookupLock(t)
    \/ \E t \in Threads : TLookup(t)
    \/ \E t \in Threads : TPush(t)
    \/ \E t \in Threads : TSinkLock(t)
    \/ \E t \in Threads : TWrite1(t)
    \/ \E t \in Threads : TWrite2(t)
    \/ \E t \in Threads : TSinkUnlock(t)

SpecOrder == InitOrder /\ [][NextOrder]_vars

\* the places of sink s's output where the line of record k stands
LineOf(s, k) ==
    {i \in 1..Len(out[s]) : out[s][i].rec.id = k /\ out[s][i].part = 1}

\* sink s has printed the line of record k
Wrote(s, k) == LineOf(s, k) # {}

\* C34: per-thread order per sink.  If one thread logged record j and later
\* record k, every sink that has printed both has printed j before k, and
\* each once, whatever the other threads log meanwhile.
C34_PerThreadOrder ==
    \A s \in SinkIds : \A j, k \in 1..Len(ret.by) :
        (j < k /\ ret.by[j] = ret.by[k] /\ Wrote(s, j) /\ Wrote(s, k))
            => /\ Cardinality(LineOf(s, j)) = 1
               /\ Cardinality(LineOf(s, k)) = 1
               /\ \A a \in LineOf(s, j), b \in LineOf(s, k) : a < b

\* one thread's two records are both printed by the first sink with a
\* record of another thread between them, and the two sinks have printed
\* two records of different threads in opposite orders
C34_Witness ==
    /\ \E j, m, k \in 1..Len(ret.by) :
           /\ ret.by[j] = ret.by[k]
           /\ ret.by[m] # ret.by[j]
           /\ \E a \in LineOf(1, j), b \in LineOf(1, m), c \in LineOf(1, k) :
                  a < b /\ b < c
    /\ \E j, k \in 1..Len(ret.by) :
           /\ \E a \in LineOf(1, j), b \in LineOf(1, k) : a < b
           /\ \E a \in LineOf(2, j), b \in LineOf(2, k) : b < a

(***************************************************************************)
(* One logging statement, step by step:                                    *)
(*   [if ((boolexpr))]                                                     *)
(*   for (front-end _tl_strm_(ln, lvl); _tl_strm_; _tl_strm_.flush()) body *)
(* thread[t] holds the statement thread t is in: the front-end's logger_   *)
(* handle and how often the body and push_record have run.  The logger's   *)
(* and the registry's floors may be set between the steps.                 *)
(***************************************************************************)
MaxStmtOps == 3    \* statements and set_level calls in one behaviour
MaxBodies == 2     \* body evaluations of one statement the model follows

StmtLevels == {debug, FileLvl}

\* a thread that is in no statement
NoStmt == [at |-> "none", ln |-> "", lvl |-> trace, cond |-> FALSE,
           logger_ |-> Null, rec |-> NoRec, tests |-> 0, enabled |-> FALSE,
           bodies |-> 0, pushes |-> 0]

\* the statement starts: the _if guard is evaluated; when it holds the
\* front-end is constructed, which looks the logger up with the statement's
\* level as filter
StmtBegin(t, ln, lvl, boolexpr) ==
    /\ left > 0
    /\ left' = left - 1
    /\ thread[t].at \in {"none", "done", "thrown"}
    /\ thread' = [thread EXCEPT ![t] =
                      [NoStmt EXCEPT
                           !.at = IF boolexpr THEN "test" ELSE "done",
                           !.ln = ln, !.lvl = lvl, !.cond = boolexpr,
                           !.logger_ = IF boolexpr
                                       THEN RegistryGetLogger(loggers_, lvl_,
                                                              ln, lvl)
                                       ELSE Null,
                           !.rec = [id |-> nrec + 1, lvl |-> lvl,
                                    m |-> PipeMsg]]]
    /\ nrec' = nrec + 1
    /\ UNCHANGED <<lvl_, loggers_, logger, sink, live, bak, console, erased,
                   ret, mtx_, reg_mtx_, id, safe, acq, out>>

\* the front-end's is_open(): logger_ && logger_->consume(get_level())
StmtIsOpen(t) ==
    /\ thread[t].logger_ # Null
    /\ LoggerConsume(logger[thread[t].logger_], thread[t].lvl)

\* the loop's condition: operator bool
StmtTest(t) ==
    /\ thread[t].at = "test"
    /\ thread' = [thread EXCEPT
                      ![t].at = IF StmtIsOpen(t) THEN "body" ELSE "done",
                      ![t].tests = 1,
                      ![t].enabled = IF thread[t].tests = 0 THEN StmtIsOpen(t)
                                     ELSE @]
    /\ UNCHANGED <<lvl_, loggers_, logger, sink, live, bak, console, nrec,
                   erased, left, ret, mtx_, reg_mtx_, id, safe, acq, out>>

\* the loop's body: the message is evaluated into the front-end
StmtBody(t) ==
    /\ thread[t].at = "body"
    /\ thread[t].bodies < MaxBodies
    /\ thread' = [thread EXCEPT ![t].at = "flush", ![t].bodies = @ + 1]
    /\ UNCHANGED <<lvl_, loggers_, logger, sink, live, bak, console, nrec,
                   erased, left, ret, mtx_, reg_mtx_, id, safe, acq, out>>

\* a flush that keeps the logger handle
StmtFlushKeep(t, e) ==
    /\ thread[t].at = "flush"
    /\ LET inst == thread[t].logger_
           W == [sink |-> sink, live |-> live, bak |-> bak,
                 console |-> console]
           r == IF inst # Null
                THEN PushRecord(W, logger[inst], thread[t].rec,
                                [s \in SinkIds |-> e])
                ELSE [W |-> W, calls |-> <<>>, threw |-> FALSE]
       IN  /\ sink' = r.W.sink
           /\ live' = r.W.live
           /\ bak' = r.W.bak
           /\ console' = r.W.console
           /\ thread' = [thread EXCEPT
                             ![t].pushes = IF inst # Null THEN @ + 1 ELSE @,
                             ![t].at = IF r.threw THEN "thrown" ELSE "test"]
    /\ UNCHANGED <<lvl_, loggers_, logger, nrec, erased, left, ret, mtx_,
                   reg_mtx_, id, safe, acq, out>>

\* the loop's third expression, flush() of the front-end's class: push_record
\* on the logger the front-end holds, then the base's flush, which resets
\* logger_.  An exception of push_record leaves flush and the statement.
StmtFlush(t, e) ==
    /\ thread[t].at = "flush"
    /\ LET inst == thread[t].logger_
           W == [sink |-> sink, live |-> live, bak |-> bak,
                 console |-> console]
           r == IF inst # Null
                THEN PushRecord(W, logger[inst], thread[t].rec,
                                [s \in SinkIds |-> e])
                ELSE [W |-> W, calls |-> <<>>, threw |-> FALSE]
       IN  /\ sink' = r.W.sink
           /\ live' = r.W.live
           /\ bak' = r.W.bak
           /\ console' = r.W.console
           /\ thread' = [thread EXCEPT
                             ![t].pushes = IF inst # Null THEN @ + 1 ELSE @,
                             ![t].logger_ = IF r.threw THEN @ ELSE Null,
                             ![t].at = IF r.threw THEN "thrown" ELSE "test"]
    /\ UNCHANGED <<lvl_, loggers_, logger, nrec, erased, left, ret, mtx_,
                   reg_mtx_, id, safe, acq, out>>

\* The program before its statements: logger PipeName is registered with a
\* console sink and a wide console sink.
InitStmt ==
    /\ lvl_ = trace
    /\ loggers_ = [n \in Names |-> IF n = PipeName THEN 1 ELSE Null]
    /\ logger = [l \in LoggerIds |->
                    IF l = 1
                    THEN [alive |-> TRUE, name |-> PipeName, lvl_ |-> trace,
                          sink_adapters_ |-> <<1, 2>>]
                    ELSE NoLogger]
    /\ sink = [s \in SinkIds |->
                  IF s <= 2
                  THEN [kind |-> IF s = 1 THEN "console" ELSE "wconsole",
                        lvl_ |-> trace, strm |-> "none", max_file_size_ |-> 0]
                  ELSE NoSink]
    /\ live = [s \in SinkIds |-> NoFile]
    /\ bak = [s \in SinkIds |-> NoFile]
    /\ console = <<>>
    /\ nrec = 0
    /\ erased = {}
    /\ left = MaxStmtOps
    /\ ret = NoRet
    /\ thread = [t \in Threads |-> NoStmt]
    /\ mtx_ = [s \in SinkIds |-> Null]
    /\ reg_mtx_ = Null
    /\ id = 0
    /\ safe = FALSE
    /\ acq = [s \in SinkIds |-> <<>>]
    /\ out = [s \in SinkIds |-> <<>>]

NextStmt ==
    \/ \E t \in Threads, n \in Names, lvl \in StmtLevels, boolexpr \in BOOLEAN :
           StmtBegin(t, n, lvl, boolexpr)
    \/ \E t \in Threads : StmtTest(t)
    \/ \E t \in Threads : StmtBody(t)
    \/ \E t \in Threads, e \in CvtOutcomes : StmtFlush(t, e)
    \/ \E lvl \in StmtLevels : SetLevel(lvl)
    \/ \E lvl \in StmtLevels : LoggerSetLevel(1, lvl)

SpecStmt == InitStmt /\ [][NextStmt]_vars

\* the statement of thread t is over
StmtOver(t) == thread[t].at \in {"done", "thrown"}

\* C35: one statement, one record.  The body of a statement never runs
\* twice and push_record is never called twice.  A statement whose front-end
\* was enabled when the loop tested it (logger found, level not below the
\* logger's floor) ends with the body run once and push_record called once;
\* when flush has returned, the front-end's handle is cleared, so the next
\* test ends the loop.  A statement whose front-end was disabled, or whose
\* _if guard was false, ends with no body run and nothing pushed; with a
\* false guard not even the logger is looked up.
C35_OneStatementOneRecord ==
    \A t \in Threads :
        /\ thread[t].bodies <= 1
        /\ thread[t].pushes <= 1
        /\ (thread[t].at = "test" /\ thread[t].tests > 0)
               => (thread[t].logger_ = Null /\ ~StmtIsOpen(t))
        /\ (StmtOver(t) /\ thread[t].enabled)
               => (thread[t].bodies = 1 /\ thread[t].pushes = 1)
        /\ (thread[t].at = "done" /\ thread[t].enabled)
               => thread[t].logger_ = Null
        /\ (StmtOver(t) /\ ~thread[t].enabled)
               => (thread[t].bodies = 0 /\ thread[t].pushes = 0
                   /\ thread[t].at = "done")
        /\ (thread[t].at # "none" /\ ~thread[t].cond)
               => (thread[t].at = "done" /\ thread[t].tests = 0
                   /\ thread[t].logger_ = Null)

\* one thread's enabled statement is over after one body and one push
\* although the logger's floor is now above its level, and another thread's
\* statement, disabled by that floor, is over with nothing evaluated
C35_Witness ==
    \E t, u \in Threads :
        /\ thread[t].at = "done" /\ thread[t].enabled
        /\ thread[t].bodies = 1 /\ thread[t].pushes = 1
        /\ logger[1].lvl_ > thread[t].lvl
        /\ thread[u].at = "done" /\ thread[u].cond /\ ~thread[u].enabled
        /\ thread[u].tests = 1 /\ thread[u].logger_ # Null

(***************************************************************************)
(* Console sinks on the one standard stream (colours enabled).  In this    *)
(* part console is the terminal: the pieces printed on stdout, in order,   *)
(* and the static members curr_ and reset_ of basic_style_impl, which all  *)
(* console sinks share.  Each sink has its own mtx_.  A thread writes one  *)
(* record, "text\n", through a sink: writing() prints the line "text", the *)
(* separator, and the empty rest after it, each line as three printf       *)
(* calls (style_beg, the text, style_end).                                 *)
(***************************************************************************)
MaxShareOps == 2    \* records written in one behaviour

\* basic_style_impl::default_: the terminal's own colours
default_ == [fg |-> "default", bg |-> "default", em |-> "normal"]

\* basic_console_sink::style_beg(lvl): the style() calls of the level, each
\* reading curr_rgb() and storing the changed value with set_rgb
style_beg(lvl, curr) ==
    IF lvl = trace THEN [curr EXCEPT !.fg = "white"]
    ELSE IF lvl = debug THEN [curr EXCEPT !.fg = "cyan"]
    ELSE IF lvl = info THEN [curr EXCEPT !.fg = "green"]
    ELSE IF lvl = warn THEN [curr EXCEPT !.fg = "yellow", !.em = "bold"]
    ELSE IF lvl = error THEN [curr EXCEPT !.fg = "red", !.em = "bold"]
    ELSE [curr EXCEPT !.fg = "red", !.bg = "white", !.em = "bold"]

\* one printf on stdout by thread t
Printf(t, part, rgb) ==
    Append(console.strm, [rec |-> thread[t].rec.id, lvl |-> thread[t].rec.lvl,
                          ln |-> thread[t].i, part |-> part, rgb |-> rgb])

\* thread t calls consume on console sink s with a record of level lvl
ConConsume(t, s, lvl) ==
    /\ left > 0
    /\ left' = left - 1
    /\ thread[t].at = "idle"
    /\ sink[s].kind = "console"
    /\ nrec' = nrec + 1
    /\ thread' = [thread EXCEPT
                      ![t].rec = [id |-> nrec + 1, lvl |-> lvl, m |-> PipeMsg],
                      ![t].logger_ = s, ![t].i = 1,
                      ![t].at = IF SinkAccepts(sink[s], lvl) THEN "sink_lock"
                                ELSE "idle"]
    /\ UNCHANGED <<lvl_, loggers_, logger, sink, live, bak, console, erased,
                   ret, mtx_, reg_mtx_, id, safe, acq, out>>

\* a lock that all console sinks share
ConLockShared(t) ==
    /\ thread[t].at = "sink_lock"
    /\ \A s \in SinkIds : mtx_[s] = Null
    /\ mtx_' = [mtx_ EXCEPT ![thread[t].logger_] = t]
    /\ thread' = [thread EXCEPT ![t].at = "style_beg"]
    /\ UNCHANGED <<lvl_, loggers_, logger, sink, live, bak, console, nrec,
                   erased, left, ret, reg_mtx_, id, safe, acq, out>>

\* basic_sink::write: std::lock_guard<mutexT> lock(mtx_), the sink's own
ConLock(t) ==
    /\ thread[t].at = "sink_lock"
    /\ mtx_[thread[t].logger_] = Null
    /\ mtx_' = [mtx_ EXCEPT ![thread[t].logger_] = t]
    /\ thread' = [thread EXCEPT ![t].at = "style_beg"]
    /\ UNCHANGED <<lvl_, loggers_, logger, sink, live, bak, console, nrec,
                   erased, left, ret, reg_mtx_, id, safe, acq, out>>

\* write_line: std::printf("%s", style_beg(lvl).c_str())
ConStyleBeg(t) ==
    /\ thread[t].at = "style_beg"
    /\ LET c == style_beg(thread[t].rec.lvl, console.curr_)
       IN  console' = [strm |-> Printf(t, "beg", c), curr_ |-> c,
                       reset_ |-> FALSE]
    /\ thread' = [thread EXCEPT ![t].at = "line"]
    /\ UNCHANGED <<lvl_, loggers_, logger, sink, live, bak, nrec, erased,
                   left, ret, mtx_, reg_mtx_, id, safe, acq, out>>

\* write_line: std::printf("%s", line.c_str()); the rest after the last
\* separator is empty and prints nothing
ConLine(t) ==
    /\ thread[t].at = "line"
    /\ console' = [console EXCEPT
                       !.strm = IF thread[t].i = 1
                                THEN Printf(t, "line", default_) ELSE @]
    /\ thread' = [thread EXCEPT ![t].at = "style_end"]
    /\ UNCHANGED <<lvl_, loggers_, logger, sink, live, bak, nrec, erased,
                   left, ret, mtx_, reg_mtx_, id, safe, acq, out>>

\* write_line: std::printf("%s", style_end().c_str()), style_end being
\* set_rgb_raw: reset_ = true, curr_ = default_
ConStyleEnd(t) ==
    /\ thread[t].at = "style_end"
    /\ console' = [strm |-> Printf(t, "end", default_), curr_ |-> default_,
                   reset_ |-> TRUE]
    /\ thread' = [thread EXCEPT
                      ![t].at = IF thread[t].i = 1 THEN "sep"
                                ELSE "sink_unlock"]
    /\ UNCHANGED <<lvl_, loggers_, logger, sink, live, bak, nrec, erased,
                   left, ret, mtx_, reg_mtx_, id, safe, acq, out>>

\* write_line_sep, after which writing() goes on with the rest of the text
ConSep(t) ==
    /\ thread[t].at = "sep"
    /\ console' = [console EXCEPT !.strm = Printf(t, "sep", default_)]
    /\ thread' = [thread EXCEPT ![t].at = "style_beg", ![t].i = 2]
    /\ UNCHANGED <<lvl_, loggers_, logger, sink, live, bak, nrec, erased,
                   left, ret, mtx_, reg_mtx_, id, safe, acq, out>>

\* the lock_guard's scope ends
ConUnlock(t) ==
    /\ thread[t].at = "sink_unlock"
    /\ mtx_' = [mtx_ EXCEPT ![thread[t].logger_] = Null]
    /\ thread' = [thread EXCEPT ![t].at = "idle"]
    /\ UNCHANGED <<lvl_, loggers_, logger, sink, live, bak, console, nrec,
                   erased, left, ret, reg_mtx_, id, safe, acq, out>>

\* Two console sinks exist (each attached to a logger of its own); nothing
\* has been printed and the style state is the initial one.
InitShare ==
    /\ lvl_ = trace
    /\ loggers_ = [n \in Names |-> IF n = "a" THEN 1 ELSE 2]
    /\ logger = [l \in LoggerIds |->
                    IF l <= 2
                    THEN [alive |-> TRUE, name |-> IF l = 1 THEN "a" ELSE "b",
                          lvl_ |-> trace, sink_adapters_ |-> <<l>>]
                    ELSE NoLogger]
    /\ sink = [s \in SinkIds |->
                  IF s <= 2
                  THEN [kind |-> "console", lvl_ |-> trace, strm |-> "none",
                        max_file_size_ |-> 0]
                  ELSE NoSink]
    /\ live = [s \in SinkIds |-> NoFile]
    /\ bak = [s \in SinkIds |-> NoFile]
    /\ console = [strm |-> <<>>, curr_ |-> default_, reset_ |-> TRUE]
    /\ nrec = 0
    /\ erased = {}
    /\ left = MaxShareOps
    /\ ret = NoRet
    /\ thread = [t \in Threads |-> NoThread]
    /\ mtx_ = [s \in SinkIds |-> Null]
    /\ reg_mtx_ = Null
    /\ id = 0
    /\ safe = FALSE
    /\ acq = [s \in SinkIds |-> <<>>]
    /\ out = [s \in SinkIds |-> <<>>]

NextShare ==
    \/ \E t \in Threads, s \in SinkIds, lvl \in {FileLvl, fatal} :
           ConConsume(t, s, lvl)
    \/ \E t \in Threads : ConLock(t)
    \/ \E t \in Threads : ConStyleBeg(t)
    \/ \E t \in Threads : ConLine(t)
    \/ \E t \in Threads : ConStyleEnd(t)
    \/ \E t \in Threads : ConSep(t)
    \/ \E t \in Threads : ConUnlock(t)

SpecShare == InitShare /\ [][NextShare]_vars

\* C36 as stated: on the standard stream the style-begin sequence, the text
\* and the style-reset sequence of a line stay next to each other, whichever
\* sinks the threads write through, and the style-begin sequence printed for
\* a record is the one of its level on the terminal's own colours: no other
\* write has changed the style state it starts from.
C36_SharedConsoleAsStated ==
    \A k \in 1..Len(console.strm) :
        LET p == console.strm[k]
            Prev(part) == /\ k > 1
                          /\ console.strm[k - 1].rec = p.rec
                          /\ console.strm[k - 1].ln = p.ln
                          /\ console.strm[k - 1].part = part
        IN  /\ p.part = "line" => Prev("beg")
            /\ p.part = "end" => IF p.ln = 1 THEN Prev("line") ELSE Prev("beg")
            /\ p.part = "beg" => p.rgb = style_beg(p.lvl, default_)

(***************************************************************************)
(* C37, as stated.  Size arithmetic on a failed stream: when a file sink   *)
(* whose stream has failed consumes a record (before_writing runs with     *)
(* tellp() = -1), no rotation step is performed, whatever the message size *)
(* and max_file_size: the file at the sink's path is not renamed to the    *)
(* backup and the stream is not reopened.  Checked on SpecClosed, whose    *)
(* file sinks all failed to open at construction.                          *)
(***************************************************************************)
C37_FailedStreamNoRotationAsStated ==
    [][(/\ ret'.op = "consume"
        /\ nrec' = nrec + 1
        /\ sink[ret'.arg].kind = "file"
        /\ ~SinkIsOpen(sink[ret'.arg]))
           => (sink' = sink /\ live' = live /\ bak' = bak)]_vars

(***************************************************************************)
(* The title banner: detail::gen_title(tm_text, sep), called by            *)
(* logger::title and logger::wtitle.  The text written to the string       *)
(* stream is kept line by line: every std::endl ends a line.               *)
(***************************************************************************)
MaxTitleLen == 41    \* longest banner text
MaxTitleOps == 1     \* title calls in one behaviour

wide == 79

\* TINYLOG_TITILE_CHAR
TitleChar == "+"

\* a text of n characters
TitleText(n) == [i \in 1..n |-> "x"]

\* oss << std::setw(w) << s: s, right-adjusted in a field of w columns
setw(w, s) ==
    IF Len(s) >= w THEN s
    ELSE [i \in 1..w |-> IF i <= w - Len(s) THEN " " ELSE s[i - (w - Len(s))]]

\* the loop that writes wide delimiters
RuleLine(d) == [i \in 1..wide |-> d]

\* oss << sep << std::setw(wide - 1) << sep
BlankLine(d) == <<d>> \o setw(wide - 1, <<d>>)

\* oss << sep << std::setw(text_pos) << tm_text << std::setw(sep_pos) << sep
TextLine(tm_text, d) ==
    LET text_pos == (wide - 2 + Len(tm_text)) \div 2
        sep_pos == (wide - 2 - Len(tm_text)) \div 2 + 1
    IN  <<d>> \o setw(text_pos, tm_text) \o setw(sep_pos, <<d>>)

\* logger::title(text) / logger::wtitle(text) is called
TitleCall(n, w) ==
    /\ IF ret.op = "title" THEN ret.at = "done" ELSE TRUE
    /\ left > 0
    /\ left' = left - 1
    /\ ret' = [op |-> "title", at |-> "top", tm_text |-> TitleText(n),
               wchar |-> w, lines |-> <<>>]
    /\ UNCHANGED <<lvl_, loggers_, logger, sink, live, bak, console, nrec,
                   erased, thread, mtx_, reg_mtx_, id, safe, acq, out>>

\* gen_title, "top": a line break, then the rule
GenTitleTop ==
    /\ ret.op = "title"
    /\ ret.at = "top"
    /\ ret' = [ret EXCEPT !.at = "center",
                          !.lines = <<<<>>, RuleLine(TitleChar)>>]
    /\ UNCHANGED <<lvl_, loggers_, logger, sink, live, bak, console, nrec,
                   erased, left, thread, mtx_, reg_mtx_, id, safe, acq, out>>

\* a center block that is written whatever the length of the text
GenTitleCenterAlways ==
    /\ ret.op = "title"
    /\ ret.at = "center"
    /\ ret' = [ret EXCEPT
                   !.at = "bottom",
                   !.lines = @ \o <<BlankLine(TitleChar),
                                    TextLine(ret.tm_text, TitleChar),
                                    BlankLine(TitleChar)>>]
    /\ UNCHANGED <<lvl_, loggers_, logger, sink, live, bak, console, nrec,
                   erased, left, thread, mtx_, reg_mtx_, id, safe, acq, out>>

\* gen_title, "center": the blank line, and when the text is no longer than
\* half the width the text line and a second blank line
GenTitleCenter ==
    /\ ret.op = "title"
    /\ ret.at = "center"
    /\ ret' = [ret EXCEPT
                   !.at = "bottom",
                   !.lines = IF Len(ret.tm_text) <= wide \div 2
                             THEN @ \o <<BlankLine(TitleChar),
                                         TextLine(ret.tm_text, TitleChar),
                                         BlankLine(TitleChar)>>
                             ELSE Append(@, BlankLine(TitleChar))]
    /\ UNCHANGED <<lvl_, loggers_, logger, sink, live, bak, console, nrec,
                   erased, left, thread, mtx_, reg_mtx_, id, safe, acq, out>>

\* gen_title, "bottom": the rule
GenTitleBottom ==
    /\ ret.op = "title"
    /\ ret.at = "bottom"
    /\ ret' = [ret EXCEPT !.at = "done",
                          !.lines = Append(@, RuleLine(TitleChar))]
    /\ UNCHANGED <<lvl_, loggers_, logger, sink, live, bak, console, nrec,
                   erased, left, thread, mtx_, reg_mtx_, id, safe, acq, out>>

NextTitle ==
    \/ \E n \in 0..MaxTitleLen, w \in BOOLEAN : TitleCall(n, w)
    \/ GenTitleTop
    \/ GenTitleCenter
    \/ GenTitleBottom

SpecTitle == InitWith(MaxTitleOps) /\ [][NextTitle]_vars

\* the lines of the banner: what follows the leading line break
Banner == Tail(ret.lines)

\* line l is the text t between two delimiters and blanks
IsTextLine(l, t) ==
    /\ Len(l) >= Len(t) + 2
    /\ l[1] = TitleChar
    /\ l[Len(l)] = TitleChar
    /\ \E p \in 1..(Len(l) - Len(t) - 1) :
           \A i \in 2..(Len(l) - 1) :
               l[i] = IF i > p /\ i <= p + Len(t) THEN t[i - p] ELSE " "

\* what gen_title returns: rule, blank line, and for a text of at most
\* wide \div 2 characters the text line and a second blank line, rule; the
\* text line is wide columns for a text of odd length and one less for a
\* text of even length
TitleGeometry ==
    (ret.op = "title" /\ ret.at = "done") =>
        LET t == ret.tm_text
            b == Banner
        IN  /\ ret.lines[1] = <<>>
            /\ b[1] = RuleLine(TitleChar) /\ b[Len(b)] = RuleLine(TitleChar)
            /\ b[2] = BlankLine(TitleChar) /\ Len(b[2]) = wide
            /\ IF Len(t) <= wide \div 2
               THEN /\ Len(b) = 5
                    /\ b[4] = BlankLine(TitleChar)
                    /\ IsTextLine(b[3], t)
                    /\ Len(b[3]) = IF Len(t) % 2 = 1 THEN wide ELSE wide - 1
               ELSE Len(b) = 3

\* C38 as stated: for a text of at most wide \div 2 = 39 characters every
\* line of the banner (the rules, the blank padded lines and the text line)
\* is exactly wide = 79 columns, and the text line holds the text between
\* two delimiters; for a longer text there is no text line and the rules are
\* 79 columns.
C38_BannerGeometryAsStated ==
    (ret.op = "title" /\ ret.at = "done") =>
        LET t == ret.tm_text
            b == Banner
        IN  IF Len(t) <= wide \div 2
            THEN /\ \A k \in 1..Len(b) : Len(b[k]) = wide
                 /\ \E k \in 1..Len(b) : IsTextLine(b[k], t)
            ELSE /\ \A k \in 1..Len(b) : ~(Len(t) > 0 /\ IsTextLine(b[k], t))
                 /\ Len(b[1]) = wide /\ b[1] = RuleLine(TitleChar)
                 /\ Len(b[Len(b)]) = wide /\ b[Len(b)] = RuleLine(TitleChar)

====
